---- MODULE Spec2Model ----
(***************************************************************************)
(* ClipForge GPU effect compositor.                                        *)
(*                                                                         *)
(* Part I  : GPURenderer (gpu/gpu_renderer.cpp) with the part of           *)
(*           OpenGLContext (gpu/opengl_context.cpp) it drives: the effect  *)
(*           chain, the intermediate framebuffer pool and the chain walk.  *)
(* Part II : GPUEffect parameter model (gpu/gpu_effect.cpp) for the eleven *)
(*           concrete effects (gpu/effects/*.cpp).                         *)
(* Part III: ShaderProgram compilation (gpu/shader_program.cpp).           *)
(* Part IV : GPUEffect::apply and the custom-uniform hooks of the concrete *)
(*           effects, as the sequence of GL calls one apply() issues.      *)
(* Part V  : GPUBridge (jni_bridge/gpu_bridge.cpp) called from threads.    *)
(* Part VI : VideoEngine (core/video_engine.cpp) and its worker threads.   *)
(* Part VII: ExportManager (encoding/export_manager.cpp) and its worker.   *)
(*                                                                         *)
(* float values are modelled as integers in tenths (0.3f is 3, 360.0f is   *)
(* 3600); glm::clamp and every comparison used here are exact on them.     *)
(* NaN is outside the model.                                               *)
(***************************************************************************)
EXTENDS Integers, Sequences, FiniteSets, TLC

(***************************************************************************)
(* Bounds of the model                                                     *)
(***************************************************************************)
\* framebuffer object names the GL implementation hands out: 1..MaxFbo
MaxFbo == 3
\* color textures the context can allocate for framebuffers
MaxTextures == 3
\* texture handles the caller owns and passes in as the frame to process
NumInputTextures == 2
\* handles the pool list holds before framebuffer creation is made to fail
MaxPool == 3
\* longest chain drawn as the input of the chain walk (ChainInit)
MaxChain == 3
\* program object names the GL implementation hands out: 1..MaxPrograms
MaxPrograms == 3

(***************************************************************************)
(* Part I : universe                                                       *)
(***************************************************************************)
\* std::shared_ptr<GPUEffect> values a caller can hold; "nullptr" is the
\* empty pointer.  For each name there is an object built with a valid
\* shader (..V) and one built without (..N).
nullptr == "nullptr"
Effects == {"fxEmptyV", "fxEmptyN", "fxAV", "fxAN", "fxBV", "fxBN"}

\* GPUEffect::getName(): m_name, fixed by the constructor
getName(e) ==
    CASE e \in {"fxEmptyV", "fxEmptyN"} -> ""
      [] e \in {"fxAV", "fxAN"}         -> "A"
      [] e \in {"fxBV", "fxBN"}         -> "B"

\* GPUEffect::isAvailable(): m_shader && m_shader->isValid(); m_shader is
\* fixed by the constructor
isAvailable(e) == e \in {"fxEmptyV", "fxAV", "fxBV"}

Names == {getName(e) : e \in Effects}
InputTextures == 1..NumInputTextures
FboNames == 1..MaxFbo

\* the steps of OpenGLContext::initialize at which it can return false
InitOutcomes == {"noDisplay", "eglInitFailed", "noConfig", "noContext",
                 "noSurface", "makeCurrentFailed", "badVersion", "ok"}

VARIABLES
    \* ---- GPURenderer ----
    m_context,                  \* "null" or "ctx": the unique_ptr<OpenGLContext>
    m_effects,                  \* name -> effect object (unordered_map)
    m_effectOrder,              \* ordered list of effect names
    m_intermediateFramebuffers, \* pool list of framebuffer handles
    \* ---- OpenGLContext / GL objects of the context ----
    egl_display,                \* m_display != EGL_NO_DISPLAY
    egl_context,                \* m_context != EGL_NO_CONTEXT
    glFramebuffers,             \* live framebuffer name -> its color texture
    glTexCount,                 \* color textures allocated in this context
    glRenderbuffers,            \* depth renderbuffers allocated in it
    egl_current,                \* the context is current on the calling thread
    \* ---- effect objects ----
    m_enabled,                  \* GPUEffect::m_enabled, per object
    \* ---- observation of the last call ----
    last,                       \* operation, arguments and return value
    applyLog,                   \* apply() invocations of the last chain walk
    shutdownRan,                \* GPURenderer::shutdown() has run on the renderer
    \* ---- Part II: one GPUEffect and its parameter model ----
    kind,                       \* which concrete effect was constructed
    m_parameterDefinitions,     \* name -> [defaultValue, minValue, maxValue]
    m_parameters,               \* name -> current value
    m_intensity,                \* GPUEffect::m_intensity
    fx_enabled,                 \* GPUEffect::m_enabled of that effect
    plast,                      \* last parameter call and its return value
    \* ---- Part III: one ShaderProgram and the GL program objects ----
    m_programId,                \* ShaderProgram::m_programId (0: none)
    m_lastError,                \* ShaderProgram::m_lastError
    glPrograms,                 \* live program object -> linked?
    slast,                      \* last ShaderProgram call and its return value
    \* ---- Part IV: the shader and the extras of the effect of Part II ----
    m_shader,                   \* "null", "notValid" or "valid" ShaderProgram
    s_quadInitialized,          \* GPUEffect::s_quadInitialized (static)
    m_lutTexture,               \* ColorGradeEffect::m_lutTexture
    m_curveTexture,             \* CurvesEffect::m_curveTexture
    m_time,                     \* GlitchEffect::m_time
    \* ---- Part V: GPUBridge and the threads that call it ----
    s_renderers,                \* handles stored in GPUBridge::s_renderers
    g_rendererMutex,            \* "free" or the thread that holds the mutex
    pc,                         \* thread -> its position in the bridge call
    renderer,                   \* thread -> its local shared_ptr ("null", "r")
    args,                       \* thread -> arguments of its call in progress
    ret,                        \* thread -> what its last call returned
    hueRead,                    \* the "hue" value the last HSL hook read
    \* ---- Part VI: VideoEngine and its worker threads ----
    m_state,                    \* EngineState
    m_stateMutex,               \* "free" or the thread that holds the mutex
    m_timeline,                 \* total duration in ms; NoTimeline if nullptr
    m_previewPlaying,           \* std::atomic<bool>
    m_previewPosition,          \* std::atomic<int64_t>, ms
    m_previewThread,            \* "null", "joinable" or "joined"
    m_exporting,                \* std::atomic<bool>
    m_cancelExport,             \* std::atomic<bool>
    m_exportThread,             \* "null", "joinable" or "joined"
    exportPos,                  \* the export loop's i, ms
    epc,                        \* engine thread -> its position
    terminated,                 \* std::terminate has been called
    \* ---- Part VII: ExportManager and its worker thread ----
    em_timeline,                \* m_config.timeline is set
    em_exporting,               \* ExportManager::m_exporting
    m_cancelled,                \* std::atomic<bool>
    m_complete,                 \* std::atomic<bool>
    em_exportThread,            \* "null", "joinable" or "joined"
    em_lastError,               \* ExportManager::m_lastError
    currentPhase,               \* m_progress.currentPhase
    xpc,                        \* thread -> its position ("caller", "worker")
    xlast,                      \* the caller's last call and what it returned
    em_terminated               \* std::terminate has been called

rvars == <<m_context, m_effects, m_effectOrder, m_intermediateFramebuffers,
           egl_display, egl_context, glFramebuffers, glTexCount,
           glRenderbuffers, egl_current, m_enabled, last, applyLog,
           shutdownRan>>
pvars == <<kind, m_parameterDefinitions, m_parameters, m_intensity,
           fx_enabled, plast>>
svars == <<m_programId, m_lastError, glPrograms, slast>>
avars == <<m_shader, s_quadInitialized, m_lutTexture, m_curveTexture, m_time>>
bvars == <<s_renderers, g_rendererMutex, pc, renderer, args, ret, hueRead>>
evars == <<m_state, m_stateMutex, m_timeline, m_previewPlaying,
           m_previewPosition, m_previewThread, m_exporting, m_cancelExport,
           m_exportThread, exportPos, epc, terminated>>
xvars == <<em_timeline, em_exporting, m_cancelled, m_complete,
           em_exportThread, em_lastError, currentPhase, xpc, xlast,
           em_terminated>>
tvars == <<bvars, evars, xvars>>
vars == <<rvars, pvars, svars, avars, tvars>>

\* the empty map
EmptyMap == [x \in {} |-> x]

\* map with key k set to v (std::unordered_map::operator[] assignment)
MapPut(m, k, v) == [x \in (DOMAIN m) \cup {k} |-> IF x = k THEN v ELSE m[x]]

\* map without key k (erase)
MapErase(m, k) == [x \in (DOMAIN m) \ {k} |-> m[x]]

\* positions of a sequence
Indices(s) == 1..Len(s)

\* std::find + vector::erase: remove the first occurrence of x, if any
EraseFirst(s, x) ==
    IF \E i \in Indices(s) : s[i] = x
    THEN LET i == CHOOSE j \in Indices(s) :
                      s[j] = x /\ \A k \in 1..(j-1) : s[k] # x
         IN  SubSeq(s, 1, i-1) \o SubSeq(s, i+1, Len(s))
    ELSE s

(***************************************************************************)
(* Part I : GPURenderer queries                                            *)
(***************************************************************************)
\* GPURenderer::isInitialized(): m_context && m_context->isInitialized()
isInitialized == m_context # "null" /\ egl_display /\ egl_context

\* GPURenderer::getEffect(): the mapped object, nullptr when absent
getEffect(effectName) ==
    IF effectName \in DOMAIN m_effects THEN m_effects[effectName] ELSE nullptr

\* GPURenderer::hasEffect()
hasEffect(effectName) == effectName \in DOMAIN m_effects

\* GPURenderer::getEffectNames(): a copy of the order list
getEffectNames == m_effectOrder

\* GPURenderer::getEffectCount(): m_effects.size()
getEffectCount == Cardinality(DOMAIN m_effects)

(***************************************************************************)
(* Part I : effect management                                              *)
(***************************************************************************)
\* addEffect without the "already exists" check: the entry is overwritten
\* and the name appended again
addEffect_noDuplicateCheck(effect) ==
    LET present == effect # nullptr /\ getName(effect) \in DOMAIN m_effects
        call    == [op |-> "addEffect", effect |-> effect, present |-> present]
    IN
    /\ IF effect = nullptr \/ ~(getName(effect) = "")
       THEN /\ last' = call @@ [ret |-> FALSE]
            /\ UNCHANGED <<m_effects, m_effectOrder>>
       ELSE /\ m_effects' = MapPut(m_effects, getName(effect), effect)
            /\ m_effectOrder' = Append(m_effectOrder, getName(effect))
            /\ last' = call @@ [ret |-> TRUE]
    /\ UNCHANGED <<m_context, m_intermediateFramebuffers, egl_display,
                   egl_context, glFramebuffers, glTexCount, glRenderbuffers,
                   egl_current, m_enabled, applyLog, shutdownRan>>

\* GPURenderer::addEffect(effect)
addEffect(effect) ==
    LET present == effect # nullptr /\ getName(effect) \in DOMAIN m_effects
        call    == [op |-> "addEffect", effect |-> effect, present |-> present]
    IN
    /\ IF effect = nullptr \/ ~(getName(effect) = "")
       THEN \* "Invalid effect"
            /\ last' = call @@ [ret |-> FALSE]
            /\ UNCHANGED <<m_effects, m_effectOrder>>
       ELSE IF getName(effect) \in DOMAIN m_effects
       THEN \* "Effect already exists"
            /\ last' = call @@ [ret |-> FALSE]
            /\ UNCHANGED <<m_effects, m_effectOrder>>
       ELSE /\ m_effects' = MapPut(m_effects, getName(effect), effect)
            /\ m_effectOrder' = Append(m_effectOrder, getName(effect))
            /\ last' = call @@ [ret |-> TRUE]
    /\ UNCHANGED <<m_context, m_intermediateFramebuffers, egl_display,
                   egl_context, glFramebuffers, glTexCount, glRenderbuffers,
                   egl_current, m_enabled, applyLog, shutdownRan>>

\* removeEffect that erases the map entry but leaves the order list alone
removeEffect_keepOrder(effectName) ==
    /\ IF effectName \notin DOMAIN m_effects
       THEN /\ last' = [op |-> "removeEffect", name |-> effectName, ret |-> FALSE]
            /\ UNCHANGED <<m_effects, m_effectOrder>>
       ELSE /\ m_effects' = MapErase(m_effects, effectName)
            /\ UNCHANGED m_effectOrder
            /\ last' = [op |-> "removeEffect", name |-> effectName, ret |-> TRUE]
    /\ UNCHANGED <<m_context, m_intermediateFramebuffers, egl_display,
                   egl_context, glFramebuffers, glTexCount, glRenderbuffers,
                   egl_current, m_enabled, applyLog, shutdownRan>>

\* GPURenderer::removeEffect(effectName)
removeEffect(effectName) ==
    /\ IF effectName \notin DOMAIN m_effects
       THEN /\ last' = [op |-> "removeEffect", name |-> effectName, ret |-> FALSE]
            /\ UNCHANGED <<m_effects, m_effectOrder>>
       ELSE /\ m_effects' = MapErase(m_effects, effectName)
            /\ m_effectOrder' = EraseFirst(m_effectOrder, effectName)
            /\ last' = [op |-> "removeEffect", name |-> effectName, ret |-> TRUE]
    /\ UNCHANGED <<m_context, m_intermediateFramebuffers, egl_display,
                   egl_context, glFramebuffers, glTexCount, glRenderbuffers,
                   egl_current, m_enabled, applyLog, shutdownRan>>

\* GPURenderer::clearEffects()
clearEffects ==
    /\ m_effects' = EmptyMap
    /\ m_effectOrder' = <<>>
    /\ last' = [op |-> "clearEffects"]
    /\ UNCHANGED <<m_context, m_intermediateFramebuffers, egl_display,
                   egl_context, glFramebuffers, glTexCount, glRenderbuffers,
                   egl_current, m_enabled, applyLog, shutdownRan>>

\* GPURenderer::setEffectEnabled(effectName, enabled)
setEffectEnabled(effectName, enabled) ==
    /\ IF getEffect(effectName) = nullptr
       THEN /\ last' = [op |-> "setEffectEnabled", name |-> effectName,
                        ret |-> FALSE]
            /\ UNCHANGED m_enabled
       ELSE /\ m_enabled' = [m_enabled EXCEPT ![getEffect(effectName)] = enabled]
            /\ last' = [op |-> "setEffectEnabled", name |-> effectName,
                        ret |-> TRUE]
    /\ UNCHANGED <<m_context, m_effects, m_effectOrder,
                   m_intermediateFramebuffers, egl_display, egl_context,
                   glFramebuffers, glTexCount, glRenderbuffers, egl_current,
                   applyLog, shutdownRan>>

(***************************************************************************)
(* Part I : OpenGLContext                                                  *)
(***************************************************************************)
\* OpenGLContext::initialize(): m_display is set once eglGetDisplay succeeded
DisplayAfter(outcome) == outcome # "noDisplay"

\* OpenGLContext::initialize(): m_context is set by eglCreateContext and
\* reset only when the surface cannot be created
ContextAfter(outcome) == outcome \in {"makeCurrentFailed", "badVersion", "ok"}

\* glGenFramebuffers: the lowest name that is not a live framebuffer; when
\* every name of the model is live, a name beyond them
GenFramebuffer(fbos) ==
    IF FboNames \ DOMAIN fbos = {} THEN MaxFbo + 1
    ELSE CHOOSE f \in FboNames \ DOMAIN fbos :
             \A g \in FboNames \ DOMAIN fbos : f <= g

\* createFramebuffer that, on an incomplete framebuffer, deletes the
\* framebuffer and the renderbuffer but not the color texture
createFramebuffer_keepTexture(gl, complete) ==
    LET fbo  == GenFramebuffer(gl.fbos)
        made == [fbos |-> MapPut(gl.fbos, fbo,
                                 NumInputTextures + gl.texCount + 1),
                 texCount |-> gl.texCount + 1,
                 rbCount |-> gl.rbCount + 1]
    IN  IF ~complete
        THEN [fbo |-> 0,
              fbos |-> MapErase(made.fbos, fbo),
              texCount |-> made.texCount,
              rbCount |-> made.rbCount - 1]
        ELSE [fbo |-> fbo, fbos |-> made.fbos, texCount |-> made.texCount,
              rbCount |-> made.rbCount]

\* OpenGLContext::createFramebuffer() on gl, the record [fbos, texCount,
\* rbCount] of the context's objects: a framebuffer, a color texture and a
\* depth renderbuffer are generated and attached; complete tells whether
\* glCheckFramebufferStatus then reports GL_FRAMEBUFFER_COMPLETE; if not,
\* the three objects are deleted again and 0 is returned
createFramebuffer(gl, complete) ==
    LET fbo  == GenFramebuffer(gl.fbos)
        made == [fbos |-> MapPut(gl.fbos, fbo,
                                 NumInputTextures + gl.texCount + 1),
                 texCount |-> gl.texCount + 1,
                 rbCount |-> gl.rbCount + 1]
    IN  IF ~complete
        THEN [fbo |-> 0,
              fbos |-> MapErase(made.fbos, fbo),
              texCount |-> made.texCount - 1,
              rbCount |-> made.rbCount - 1]
        ELSE [fbo |-> fbo, fbos |-> made.fbos, texCount |-> made.texCount,
              rbCount |-> made.rbCount]

\* the context can hold one more complete framebuffer
CanCreate(gl) ==
    /\ FboNames \ DOMAIN gl.fbos # {}
    /\ gl.texCount < MaxTextures

\* OpenGLContext::deleteFramebuffer(fbo): glDeleteFramebuffers only; names
\* that are 0 or not live are ignored
deleteFramebuffer(fbos, fbo) ==
    IF fbo # 0 THEN MapErase(fbos, fbo) ELSE fbos

\* OpenGLContext::getFramebufferTexture(fbo): color attachment 0 of fbo;
\* a name that is not a live framebuffer has no attachment (0)
getFramebufferTexture(fbos, fbo) ==
    IF fbo \in DOMAIN fbos THEN fbos[fbo] ELSE 0

(***************************************************************************)
(* Part I : GPUEffect::apply as the chain sees it                          *)
(***************************************************************************)
\* GPUEffect::apply(): false when the shader is not available, true without
\* drawing when disabled, otherwise one draw into the output framebuffer
apply(effect) ==
    IF ~isAvailable(effect) THEN [ret |-> FALSE, drew |-> FALSE]
    ELSE IF ~m_enabled[effect] THEN [ret |-> TRUE, drew |-> FALSE]
    ELSE [ret |-> TRUE, drew |-> TRUE]

(***************************************************************************)
(* Part I : the chain walk                                                 *)
(***************************************************************************)
\* GPURenderer::createIntermediateFramebuffer() on the walk state st
createIntermediateFramebuffer(st, complete) ==
    LET c == createFramebuffer([fbos |-> st.fbos, texCount |-> st.texCount,
                                rbCount |-> st.rbCount], complete)
    IN  [st EXCEPT !.fbos = c.fbos,
                   !.texCount = c.texCount,
                   !.rbCount = c.rbCount,
                   !.pool = IF c.fbo # 0 THEN Append(st.pool, c.fbo) ELSE st.pool,
                   !.fbo = c.fbo]

\* a walk that does not skip disabled effects
SkipEffect_never(effect) == FALSE

\* applyEffectChain, "if (!effect->isEnabled()) continue;"
SkipEffect(effect) == ~m_enabled[effect]

\* a walk that falls through after a failed apply: the deleted framebuffer's
\* texture becomes the current texture
AfterApply_advanceOnFailure(s1, rec) ==
    IF ~rec.ret
    THEN [s1 EXCEPT !.log = Append(s1.log, rec),
                    !.fbos = deleteFramebuffer(s1.fbos, s1.fbo),
                    !.currentTexture = rec.out]
    ELSE [s1 EXCEPT !.log = Append(s1.log, rec),
                    !.currentTexture = getFramebufferTexture(s1.fbos, s1.fbo)]

\* a walk that never feeds an effect's output to the next effect
AfterApply_noAdvance(s1, rec) ==
    IF ~rec.ret
    THEN [s1 EXCEPT !.log = Append(s1.log, rec),
                    !.fbos = deleteFramebuffer(s1.fbos, s1.fbo)]
    ELSE [s1 EXCEPT !.log = Append(s1.log, rec)]

\* applyEffectChain after effect->apply() returned rec.ret: on failure the
\* framebuffer is deleted and the walk continues with the texture it had;
\* on success the framebuffer's color texture becomes the current texture
AfterApply(s1, rec) ==
    IF ~rec.ret
    THEN [s1 EXCEPT !.log = Append(s1.log, rec),
                    !.fbos = deleteFramebuffer(s1.fbos, s1.fbo)]
    ELSE [s1 EXCEPT !.log = Append(s1.log, rec),
                    !.currentTexture = getFramebufferTexture(s1.fbos, s1.fbo)]

\* one iteration of the loop of GPURenderer::applyEffectChain.
\* st: currentTexture, pool, fbos, texCount, rbCount, log, fbo (scratch), valid
\* (the outcomes in the plan are ones the bounded context can produce; a
\* skipped position carries FALSE), crashed (a null effect pointer was
\* dereferenced).
ChainIteration(st, effectName, complete) ==
    IF st.crashed \/ ~st.valid THEN st
    ELSE IF effectName \notin DOMAIN m_effects
    THEN [st EXCEPT !.crashed = TRUE]
    ELSE LET effect == m_effects[effectName] IN
         IF SkipEffect(effect)
         THEN [st EXCEPT !.valid = ~complete]
         ELSE IF /\ complete
                 /\ \/ ~CanCreate([fbos |-> st.fbos, texCount |-> st.texCount])
                    \/ Len(st.pool) >= MaxPool
         THEN [st EXCEPT !.valid = FALSE]
         ELSE LET s1 == createIntermediateFramebuffer(st, complete) IN
              IF s1.fbo = 0
              THEN s1
              ELSE LET a   == apply(effect)
                       rec == [name |-> effectName, effect |-> effect,
                               input |-> st.currentTexture, fbo |-> s1.fbo,
                               out |-> getFramebufferTexture(s1.fbos, s1.fbo),
                               ret |-> a.ret, drew |-> a.drew]
                   IN  AfterApply(s1, rec)

RECURSIVE ChainLoop(_, _, _, _)
\* the for loop over m_effectOrder, from position i
ChainLoop(order, i, plan, st) ==
    IF i > Len(order) THEN st
    ELSE ChainLoop(order, i + 1, plan, ChainIteration(st, order[i], plan[i]))

\* GPURenderer::applyEffectChain(inputTexture); .currentTexture of the
\* result is the return value
applyEffectChain(inputTexture, plan) ==
    ChainLoop(m_effectOrder, 1, plan,
              [currentTexture |-> inputTexture,
               pool |-> m_intermediateFramebuffers,
               fbos |-> glFramebuffers, texCount |-> glTexCount,
               rbCount |-> glRenderbuffers,
               log |-> <<>>, fbo |-> 0, valid |-> TRUE, crashed |-> FALSE])

\* for each position of the walk, whether createFramebuffer there yields a
\* complete framebuffer
Plans == [Indices(m_effectOrder) -> BOOLEAN]

(***************************************************************************)
(* Part I : lifecycle and rendering                                        *)
(***************************************************************************)
\* OpenGLContext::initialize(): eglMakeCurrent succeeded, which happens
\* when the step that stops it, if any, is the version check
CurrentAfter(outcome) == outcome \in {"badVersion", "ok"}

\* GPURenderer::initialize(config): a new OpenGLContext replaces the old one
\* (whose destructor shuts it down); outcome is the step at which
\* OpenGLContext::initialize stopped.  The GL objects tracked from here on
\* are those of the new context.
initialize(outcome) ==
    /\ m_context' = "ctx"
    /\ egl_display' = DisplayAfter(outcome)
    /\ egl_context' = ContextAfter(outcome)
    /\ egl_current' = CurrentAfter(outcome)
    /\ glFramebuffers' = EmptyMap
    /\ glTexCount' = 0
    /\ glRenderbuffers' = 0
    /\ last' = [op |-> "initialize", ret |-> (outcome = "ok")]
    /\ UNCHANGED <<m_effects, m_effectOrder, m_intermediateFramebuffers,
                   m_enabled, applyLog, shutdownRan>>

RECURSIVE DeleteAll(_, _)
\* shutdown's loop "for (GLuint fbo : m_intermediateFramebuffers)
\* m_context->deleteFramebuffer(fbo)"
DeleteAll(fbos, pool) ==
    IF pool = <<>> THEN fbos
    ELSE DeleteAll(deleteFramebuffer(fbos, Head(pool)), Tail(pool))

\* a shutdown that does not shut the context down
shutdown_keepContext ==
    /\ m_effects' = EmptyMap
    /\ m_effectOrder' = <<>>
    /\ m_intermediateFramebuffers' = <<>>
    /\ glFramebuffers' =
          IF egl_current
          THEN DeleteAll(glFramebuffers, m_intermediateFramebuffers)
          ELSE glFramebuffers
    /\ shutdownRan' = TRUE
    /\ last' = [op |-> "shutdown", wasCurrent |-> egl_current]
    /\ UNCHANGED <<m_context, egl_display, egl_context, egl_current,
                   glTexCount, glRenderbuffers, m_enabled, applyLog>>

\* GPURenderer::shutdown(): clearEffects; deleteFramebuffer for each handle
\* of the pool (glDeleteFramebuffers acts only on a current context, and
\* deletes neither the color texture nor the depth renderbuffer); clear the
\* pool; OpenGLContext::shutdown.  eglDestroyContext destroys the context
\* with all its objects at once when it is not current; a context that is
\* current is only marked and lives on, with its objects, until the thread
\* releases it.  The handles m_display and m_context are reset either way.
shutdown ==
    /\ m_effects' = EmptyMap
    /\ m_effectOrder' = <<>>
    /\ m_intermediateFramebuffers' = <<>>
    /\ egl_display' = FALSE
    /\ egl_context' = FALSE
    /\ egl_current' = FALSE
    /\ IF egl_context /\ ~egl_current
       THEN /\ glFramebuffers' = EmptyMap
            /\ glTexCount' = 0
            /\ glRenderbuffers' = 0
       ELSE /\ glFramebuffers' =
                  IF egl_current
                  THEN DeleteAll(glFramebuffers, m_intermediateFramebuffers)
                  ELSE glFramebuffers
            /\ UNCHANGED <<glTexCount, glRenderbuffers>>
    /\ shutdownRan' = TRUE
    /\ last' = [op |-> "shutdown", wasCurrent |-> egl_current]
    /\ UNCHANGED <<m_context, m_enabled, applyLog>>

\* GPURenderer::renderFrame(inputTexture, outputFramebuffer): the chain is
\* walked only on an initialized renderer whose context could be made
\* current; the context is released and the call then returns true
\* whatever the walk did
renderFrame(inputTexture, makeCurrentOk, plan) ==
    IF ~isInitialized \/ ~makeCurrentOk
    THEN /\ last' = [op |-> "renderFrame", input |-> inputTexture,
                     walked |-> FALSE, ret |-> FALSE]
         /\ applyLog' = <<>>
         /\ UNCHANGED <<m_context, m_effects, m_effectOrder,
                        m_intermediateFramebuffers, egl_display, egl_context,
                        glFramebuffers, glTexCount, glRenderbuffers,
                        egl_current, m_enabled, shutdownRan>>
    ELSE LET r == applyEffectChain(inputTexture, plan) IN
         /\ r.valid
         /\ m_intermediateFramebuffers' = r.pool
         /\ glFramebuffers' = r.fbos
         /\ glTexCount' = r.texCount
         /\ glRenderbuffers' = r.rbCount
         /\ egl_current' = FALSE
         /\ applyLog' = r.log
         /\ last' = [op |-> "renderFrame", input |-> inputTexture,
                     walked |-> TRUE, plan |-> plan,
                     created |-> Len(r.pool) - Len(m_intermediateFramebuffers),
                     out |-> r.currentTexture,
                     ret |-> IF r.crashed THEN "crash" ELSE TRUE]
         /\ UNCHANGED <<m_context, m_effects, m_effectOrder, egl_display,
                        egl_context, m_enabled, shutdownRan>>

\* GPURenderer::renderToTexture(inputTexture): on an initialized renderer
\* whose context could be made current a framebuffer is created first
\* (complete tells whether that one is complete); without it the call
\* returns 0 with the context still current; otherwise the chain is walked
\* and the color texture of that first framebuffer is returned
renderToTexture(inputTexture, makeCurrentOk, complete, plan) ==
    LET call == [op |-> "renderToTexture", input |-> inputTexture]
        gl   == [fbos |-> glFramebuffers, texCount |-> glTexCount,
                 rbCount |-> glRenderbuffers]
    IN
    IF ~isInitialized \/ ~makeCurrentOk
    THEN /\ last' = call @@ [attempted |-> FALSE, walked |-> FALSE, ret |-> 0]
         /\ applyLog' = <<>>
         /\ UNCHANGED <<m_context, m_effects, m_effectOrder,
                        m_intermediateFramebuffers, egl_display, egl_context,
                        glFramebuffers, glTexCount, glRenderbuffers,
                        egl_current, m_enabled, shutdownRan>>
    ELSE IF ~complete
    THEN LET c == createFramebuffer(gl, FALSE) IN
         /\ glFramebuffers' = c.fbos
         /\ glTexCount' = c.texCount
         /\ glRenderbuffers' = c.rbCount
         /\ m_intermediateFramebuffers' =
               IF c.fbo # 0 THEN Append(m_intermediateFramebuffers, c.fbo)
               ELSE m_intermediateFramebuffers
         /\ egl_current' = TRUE
         /\ applyLog' = <<>>
         /\ last' = call @@ [attempted |-> TRUE, complete |-> FALSE,
                             walked |-> FALSE, ret |-> 0]
         /\ UNCHANGED <<m_context, m_effects, m_effectOrder, egl_display,
                        egl_context, m_enabled, shutdownRan>>
    ELSE LET c == createFramebuffer(gl, TRUE)
             r == ChainLoop(m_effectOrder, 1, plan,
                     [currentTexture |-> inputTexture,
                      pool |-> Append(m_intermediateFramebuffers, c.fbo),
                      fbos |-> c.fbos, texCount |-> c.texCount,
                      rbCount |-> c.rbCount,
                      log |-> <<>>, fbo |-> 0, valid |-> TRUE,
                      crashed |-> FALSE])
         IN
         /\ CanCreate(gl)
         /\ Len(m_intermediateFramebuffers) < MaxPool
         /\ r.valid
         /\ m_intermediateFramebuffers' = r.pool
         /\ glFramebuffers' = r.fbos
         /\ glTexCount' = r.texCount
         /\ glRenderbuffers' = r.rbCount
         /\ egl_current' = FALSE
         /\ applyLog' = r.log
         /\ last' = call @@ [attempted |-> TRUE, complete |-> TRUE,
                             walked |-> TRUE, plan |-> plan,
                             chainOut |-> r.currentTexture,
                             crashed |-> r.crashed,
                             ret |-> IF r.crashed THEN "crash"
                                     ELSE getFramebufferTexture(r.fbos, c.fbo)]
         /\ UNCHANGED <<m_context, m_effects, m_effectOrder, egl_display,
                        egl_context, m_enabled, shutdownRan>>

\* GPURenderer::applyEffect(inputTexture, effectName, outputFramebuffer):
\* without the effect it returns false; there is no isInitialized() check,
\* so on a renderer without a context m_context->makeCurrent() dereferences
\* a null pointer; with outputFramebuffer 0 a framebuffer is created
\* (complete tells whether it is complete), and without one the call
\* returns false with the context still current; otherwise the effect is
\* applied, the context released and apply()'s result returned
applyEffect(inputTexture, effectName, outputFramebuffer, makeCurrentOk, complete) ==
    LET call == [op |-> "applyEffect", name |-> effectName,
                 fbo |-> outputFramebuffer]
        gl   == [fbos |-> glFramebuffers, texCount |-> glTexCount,
                 rbCount |-> glRenderbuffers]
    IN
    IF getEffect(effectName) = nullptr
    THEN /\ last' = call @@ [made |-> FALSE, crashed |-> FALSE, ret |-> FALSE]
         /\ applyLog' = <<>>
         /\ UNCHANGED <<m_context, m_effects, m_effectOrder,
                        m_intermediateFramebuffers, egl_display, egl_context,
                        glFramebuffers, glTexCount, glRenderbuffers,
                        egl_current, m_enabled, shutdownRan>>
    ELSE IF m_context = "null"
    THEN /\ last' = call @@ [made |-> FALSE, crashed |-> TRUE, ret |-> "crash"]
         /\ applyLog' = <<>>
         /\ UNCHANGED <<m_context, m_effects, m_effectOrder,
                        m_intermediateFramebuffers, egl_display, egl_context,
                        glFramebuffers, glTexCount, glRenderbuffers,
                        egl_current, m_enabled, shutdownRan>>
    ELSE IF ~isInitialized \/ ~makeCurrentOk
    THEN /\ last' = call @@ [made |-> FALSE, crashed |-> FALSE, ret |-> FALSE]
         /\ applyLog' = <<>>
         /\ UNCHANGED <<m_context, m_effects, m_effectOrder,
                        m_intermediateFramebuffers, egl_display, egl_context,
                        glFramebuffers, glTexCount, glRenderbuffers,
                        egl_current, m_enabled, shutdownRan>>
    ELSE IF outputFramebuffer = 0 /\ ~complete
    THEN LET c == createFramebuffer(gl, FALSE) IN
         /\ glFramebuffers' = c.fbos
         /\ glTexCount' = c.texCount
         /\ glRenderbuffers' = c.rbCount
         /\ egl_current' = TRUE
         /\ applyLog' = <<>>
         /\ last' = call @@ [made |-> TRUE, crashed |-> FALSE, ret |-> FALSE]
         /\ UNCHANGED <<m_context, m_effects, m_effectOrder,
                        m_intermediateFramebuffers, egl_display, egl_context,
                        m_enabled, shutdownRan>>
    ELSE LET effect == getEffect(effectName)
             c   == IF outputFramebuffer = 0
                    THEN createFramebuffer(gl, TRUE)
                    ELSE [fbo |-> outputFramebuffer] @@ gl
             a   == apply(effect)
             rec == [name |-> effectName, effect |-> effect,
                     input |-> inputTexture, fbo |-> c.fbo,
                     out |-> getFramebufferTexture(c.fbos, c.fbo),
                     ret |-> a.ret, drew |-> a.drew]
         IN
         /\ outputFramebuffer = 0 =>
               (CanCreate(gl) /\ Len(m_intermediateFramebuffers) < MaxPool)
         /\ glFramebuffers' = c.fbos
         /\ glTexCount' = c.texCount
         /\ glRenderbuffers' = c.rbCount
         /\ m_intermediateFramebuffers' =
               IF outputFramebuffer = 0
               THEN Append(m_intermediateFramebuffers, c.fbo)
               ELSE m_intermediateFramebuffers
         /\ egl_current' = FALSE
         /\ applyLog' = <<rec>>
         /\ last' = call @@ [made |-> TRUE, crashed |-> FALSE, ret |-> a.ret]
         /\ UNCHANGED <<m_context, m_effects, m_effectOrder, egl_display,
                        egl_context, m_enabled, shutdownRan>>

\* GPURenderer::releaseIntermediateFramebuffer(fbo): a handle found in the
\* pool list is passed to deleteFramebuffer (which acts on the GL only
\* while the context is current) and erased from the list
releaseIntermediateFramebuffer(fbo) ==
    LET found == \E i \in Indices(m_intermediateFramebuffers) :
                     m_intermediateFramebuffers[i] = fbo
    IN
    /\ IF found
       THEN /\ glFramebuffers' =
                  IF egl_current THEN deleteFramebuffer(glFramebuffers, fbo)
                  ELSE glFramebuffers
            /\ m_intermediateFramebuffers' =
                  EraseFirst(m_intermediateFramebuffers, fbo)
       ELSE UNCHANGED <<glFramebuffers, m_intermediateFramebuffers>>
    /\ last' = [op |-> "releaseIntermediateFramebuffer", fbo |-> fbo,
                found |-> found,
                live |-> fbo \in DOMAIN glFramebuffers]
    /\ UNCHANGED <<m_context, m_effects, m_effectOrder, egl_display,
                   egl_context, glTexCount, glRenderbuffers, egl_current,
                   m_enabled, applyLog, shutdownRan>>

(***************************************************************************)
(* Part I : specification                                                  *)
(***************************************************************************)
\* the renderer after GPURenderer::GPURenderer(): no context, empty chain,
\* empty pool; the effect objects are enabled (m_enabled = true)
RInit ==
    /\ m_context = "null"
    /\ m_effects = EmptyMap
    /\ m_effectOrder = <<>>
    /\ m_intermediateFramebuffers = <<>>
    /\ egl_display = FALSE
    /\ egl_context = FALSE
    /\ glFramebuffers = EmptyMap
    /\ glTexCount = 0
    /\ glRenderbuffers = 0
    /\ egl_current = FALSE
    /\ m_enabled = [e \in Effects |-> TRUE]
    /\ last = [op |-> "construct"]
    /\ applyLog = <<>>
    /\ shutdownRan = FALSE

\* no GPUEffect of Part II has been constructed
PIdle ==
    /\ kind = "none"
    /\ m_parameterDefinitions = EmptyMap
    /\ m_parameters = EmptyMap
    /\ m_intensity = 10
    /\ fx_enabled = TRUE
    /\ plast = [op |-> "none"]

\* no ShaderProgram of Part III has been constructed
SIdle ==
    /\ m_programId = 0
    /\ m_lastError = ""
    /\ glPrograms = EmptyMap
    /\ slast = [op |-> "none"]

\* the extras of the effect of Part II: concrete effects are constructed
\* with a null shader; no quad geometry, no LUT, no curve texture, time 0
AIdle ==
    /\ m_shader = "null"
    /\ s_quadInitialized = FALSE
    /\ m_lutTexture = 0
    /\ m_curveTexture = 0
    /\ m_time = 0

\* the threads that call into GPUBridge
Threads == {"param", "render", "destroy"}

\* no renderer has been stored in the bridge and no thread is in a call
BIdle ==
    /\ s_renderers = {}
    /\ g_rendererMutex = "free"
    /\ pc = [t \in Threads |-> "idle"]
    /\ renderer = [t \in Threads |-> "null"]
    /\ args = [t \in Threads |-> <<>>]
    /\ ret = [t \in Threads |-> [call |-> "none"]]
    /\ hueRead = 0

\* the threads of Part VI: the caller of the engine and its two workers
EngineThreads == {"main", "preview", "export"}

\* m_timeline == nullptr
NoTimeline == -1

\* VideoEngine as constructed (member initializers of video_engine.h)
EIdle ==
    /\ m_state = "IDLE"
    /\ m_stateMutex = "free"
    /\ m_timeline = NoTimeline
    /\ m_previewPlaying = FALSE
    /\ m_previewPosition = 0
    /\ m_previewThread = "null"
    /\ m_exporting = FALSE
    /\ m_cancelExport = FALSE
    /\ m_exportThread = "null"
    /\ exportPos = 0
    /\ epc = [t \in EngineThreads |-> "idle"]
    /\ terminated = FALSE

\* the threads of Part VII
ExportThreads == {"caller", "worker"}

\* ExportManager as constructed (export_manager.cpp, constructor)
XIdle ==
    /\ em_timeline = FALSE
    /\ em_exporting = FALSE
    /\ m_cancelled = FALSE
    /\ m_complete = FALSE
    /\ em_exportThread = "null"
    /\ em_lastError = ""
    /\ currentPhase = ""
    /\ xpc = [t \in ExportThreads |-> "idle"]
    /\ xlast = [op |-> "construct"]
    /\ em_terminated = FALSE

\* nothing of Parts V, VI and VII is in use
TIdle == BIdle /\ EIdle /\ XIdle

Init == RInit /\ PIdle /\ SIdle /\ AIdle /\ TIdle

RNext ==
    \/ \E e \in Effects \cup {nullptr} : addEffect(e)
    \/ \E n \in Names : removeEffect(n)
    \/ clearEffects
    \/ \E n \in Names, b \in BOOLEAN : setEffectEnabled(n, b)
    \/ \E o \in InitOutcomes : initialize(o)
    \/ shutdown
    \/ \E t \in InputTextures, mc \in BOOLEAN, plan \in Plans :
           renderFrame(t, mc, plan)
    \/ \E t \in InputTextures, mc \in BOOLEAN, c \in BOOLEAN, plan \in Plans :
           renderToTexture(t, mc, c, plan)

Next == RNext /\ UNCHANGED <<pvars, svars, avars, tvars>>

Spec == Init /\ [][Next]_vars

(***************************************************************************)
(* Part I : the chain walk on every well-formed chain                      *)
(*                                                                         *)
(* addEffect admits only an effect whose name is empty, so from Init the   *)
(* chain never holds more than one effect.  ChainSpec starts the renderer  *)
(* with each chain that satisfies the class invariant (distinct names,     *)
(* every name mapped to an effect object of that name) as the input of     *)
(* the walk, on an initialized renderer, and renders with it while the     *)
(* effects are switched on and off.                                        *)
(***************************************************************************)
\* the order lists: sequences of distinct names, at most MaxChain long
Orders ==
    {o \in UNION {[1..n -> Names] : n \in 0..MaxChain} :
        \A i, j \in DOMAIN o : i # j => o[i] # o[j]}

\* the elements of a sequence
Range(s) == {s[i] : i \in DOMAIN s}

\* the name-to-effect maps that fit an order list
MapsFor(o) ==
    {m \in [Range(o) -> Effects] : \A n \in Range(o) : getName(m[n]) = n}

ChainInit ==
    /\ m_effectOrder \in Orders
    /\ m_effects \in MapsFor(m_effectOrder)
    /\ m_context = "ctx"
    /\ m_intermediateFramebuffers = <<>>
    /\ egl_display = TRUE
    /\ egl_context = TRUE
    /\ glFramebuffers = EmptyMap
    /\ glTexCount = 0
    /\ glRenderbuffers = 0
    /\ egl_current = TRUE
    /\ m_enabled = [e \in Effects |-> TRUE]
    /\ last = [op |-> "initialize", ret |-> TRUE]
    /\ applyLog = <<>>
    /\ shutdownRan = FALSE
    /\ PIdle
    /\ SIdle
    /\ AIdle
    /\ TIdle

ChainNext ==
    /\ \/ \E n \in Names, b \in BOOLEAN : setEffectEnabled(n, b)
       \/ \E t \in InputTextures, mc \in BOOLEAN, plan \in Plans :
              renderFrame(t, mc, plan)
    /\ UNCHANGED <<pvars, svars, avars, tvars>>

ChainSpec == ChainInit /\ [][ChainNext]_vars

(***************************************************************************)
(* Part I : the framebuffer pool and the context over a renderer's life    *)
(*                                                                         *)
(* PoolSpec follows one renderer from construction through the calls that  *)
(* create, delete and list framebuffers and that make the context current: *)
(* initialize, the three render entry points, the release of a pool        *)
(* handle, and shutdown.  The chain holds an effect with the empty name    *)
(* (the only name addEffect admits), with or without a valid shader.       *)
(***************************************************************************)
\* output framebuffers a caller passes to applyEffect: 0 asks for a new one,
\* 2 is a handle the caller holds
ApplyTargets == {0, 2}

\* the outcomes of OpenGLContext::initialize taken in PoolSpec: success, and
\* a failure that leaves no context
PoolInitOutcomes == {"noContext", "ok"}

PoolNext ==
    /\ \/ \E e \in {"fxEmptyV", "fxEmptyN"} : addEffect(e)
       \/ \E o \in PoolInitOutcomes : initialize(o)
       \/ shutdown
       \/ \E mc \in BOOLEAN, plan \in Plans : renderFrame(1, mc, plan)
       \/ \E mc \in BOOLEAN, c \in BOOLEAN, plan \in Plans :
              renderToTexture(1, mc, c, plan)
       \/ \E n \in {"", "A"}, f \in ApplyTargets, mc \in BOOLEAN,
             c \in BOOLEAN : applyEffect(1, n, f, mc, c)
       \/ \E f \in FboNames : releaseIntermediateFramebuffer(f)
    /\ UNCHANGED <<pvars, svars, avars, tvars>>

PoolSpec == Init /\ [][PoolNext]_vars

(***************************************************************************)
(* Part I : properties of the effect chain                                 *)
(***************************************************************************)
\* the last call was a renderFrame that walked the chain
Walked == last.op = "renderFrame" /\ last.walked

\* position of a name in the order list
PosOf(n) == CHOOSE i \in Indices(m_effectOrder) : m_effectOrder[i] = n

\* positions of the order list that hold an enabled effect
EnabledPositions ==
    {i \in Indices(m_effectOrder) : m_enabled[getEffect(m_effectOrder[i])]}

\* enabled positions at which the last walk obtained a framebuffer
FramedPositions == {i \in EnabledPositions : last.plan[i]}

\* the texture the walk holds when it reaches log entry k: the output of the
\* latest earlier apply that succeeded, else the caller's input texture
TextureBefore(k) ==
    LET ok == {j \in 1..(k-1) : applyLog[j].ret} IN
    IF ok = {} THEN last.input
    ELSE applyLog[CHOOSE j \in ok : \A i \in ok : i <= j].out

\* the log lists exactly the positions P, each once, in list order
LogCovers(P) ==
    /\ Len(applyLog) = Cardinality(P)
    /\ \A k \in Indices(applyLog) :
          /\ applyLog[k].name \in Range(m_effectOrder)
          /\ PosOf(applyLog[k].name) \in P
          /\ applyLog[k].effect = getEffect(applyLog[k].name)
          /\ k > 1 => PosOf(applyLog[k-1].name) < PosOf(applyLog[k].name)

\* C1 (as claimed): addEffect of an effect with a non-empty name that is not
\* in the chain returns true and puts the name at the end of
\* getEffectNames()
C1_AddDistinctNameSucceeds ==
    (/\ last.op = "addEffect"
     /\ last.effect # nullptr
     /\ getName(last.effect) # ""
     /\ ~last.present)
    => /\ last.ret = TRUE
       /\ getEffectNames # <<>>
       /\ getEffectNames[Len(getEffectNames)] = getName(last.effect)

\* a failed apply leaves the texture alone: the next apply of the walk gets
\* the failing apply's input, and if none follows that input is returned
FailureKeepsTexture(k) ==
    /\ k < Len(applyLog) => applyLog[k+1].input = applyLog[k].input
    /\ k = Len(applyLog) => last.out = applyLog[k].input

C3_DisabledPassThrough ==
    (Walked /\ EnabledPositions = {}) =>
        /\ last.out = last.input
        /\ applyLog = <<>>
        /\ last.created = 0
        /\ last.ret = TRUE

\* C3 witness: a walk over a non-empty chain of disabled effects, one of
\* them with a valid shader
C3_Witness ==
    /\ Walked
    /\ m_effectOrder # <<>>
    /\ EnabledPositions = {}
    /\ \E n \in Range(m_effectOrder) : isAvailable(getEffect(n))

\* the inputs of the logged applies chain up as the walk prescribes
InputsChained ==
    \A k \in Indices(applyLog) : applyLog[k].input = TextureBefore(k)

\* C4 (as claimed): one render call applies exactly the enabled effects,
\* each once, in list order, each on the output of the latest success
C4_AppliesExactlyEnabled ==
    Walked => (LogCovers(EnabledPositions) /\ InputsChained)

\* C4 (amended): one render call applies exactly the enabled effects for
\* which createIntermediateFramebuffer returned a framebuffer, each once,
\* in list order, each on the output of the latest success
C4_AppliesExactlyFramed ==
    Walked => (LogCovers(FramedPositions) /\ InputsChained)

\* C4 witness: a walk that applied three effects, the third on the output of
\* an earlier one
C4_Witness ==
    /\ Walked
    /\ Len(applyLog) = 3
    /\ applyLog[3].input # last.input

\* C5: addEffect of a name that is already in the chain returns false and
\* leaves the order list, the map and the registered effect object as they
\* were
C5_DuplicateAddRejected ==
    [][(last'.op = "addEffect" /\ last'.present) =>
          /\ last'.ret = FALSE
          /\ m_effectOrder' = m_effectOrder
          /\ m_effects' = m_effects
          /\ m_enabled' = m_enabled]_vars

\* C5 witness: a second object with the name of a registered effect was
\* offered and refused
C5_Witness ==
    /\ last.op = "addEffect"
    /\ last.present
    /\ last.effect # getEffect(getName(last.effect))
    /\ last.ret = FALSE

\* C6: the order list holds no name twice, its names are the keys of the
\* map, getEffectCount() is the length of getEffectNames() and every listed
\* name resolves to an effect
C6_ChainConsistent ==
    /\ \A i, j \in Indices(m_effectOrder) :
          i # j => m_effectOrder[i] # m_effectOrder[j]
    /\ Range(m_effectOrder) = DOMAIN m_effects
    /\ getEffectCount = Len(getEffectNames)
    /\ \A i \in Indices(getEffectNames) : getEffect(getEffectNames[i]) # nullptr

\* C6 witness: an effect is in the chain and has just been switched off
C6_Witness ==
    /\ last.op = "setEffectEnabled"
    /\ last.ret = TRUE
    /\ Len(m_effectOrder) = 1
    /\ hasEffect(m_effectOrder[1])
    /\ ~m_enabled[getEffect(m_effectOrder[1])]

(***************************************************************************)
(* Part II : GPUEffect parameter model                                     *)
(***************************************************************************)
\* the eleven concrete effects
Kinds == {"ColorGrade", "Curves", "HSL", "GaussianBlur", "Vignette", "Glow",
          "ChromaticAberration", "Glitch", "Posterize", "Invert", "Grayscale"}

\* the defineParameter calls of each constructor, in order:
\* <<name, defaultVal, minVal, maxVal>> in tenths
Declared(k) ==
    CASE k = "ColorGrade" ->
           << <<"intensity", 10, 0, 10>>, <<"temperature", 5, 0, 10>>,
              <<"tint", 5, 0, 10>> >>
      [] k = "Curves" ->
           << <<"intensity", 10, 0, 10>>, <<"redMidtone", 5, 0, 10>>,
              <<"greenMidtone", 5, 0, 10>>, <<"blueMidtone", 5, 0, 10>>,
              <<"luminanceMidtone", 5, 0, 10>> >>
      [] k = "HSL" ->
           << <<"intensity", 10, 0, 10>>, <<"hue", 5, 0, 10>>,
              <<"saturation", 5, 0, 10>>, <<"lightness", 5, 0, 10>> >>
      [] k = "GaussianBlur" ->
           << <<"intensity", 10, 0, 10>>, <<"radius", 50, 5, 500>> >>
      [] k = "Vignette" ->
           << <<"intensity", 5, 0, 10>>, <<"radius", 5, 2, 10>>,
              <<"softness", 3, 0, 10>> >>
      [] k = "Glow" ->
           << <<"intensity", 5, 0, 10>>, <<"threshold", 5, 0, 10>>,
              <<"spread", 3, 0, 10>> >>
      [] k = "ChromaticAberration" ->
           << <<"intensity", 5, 0, 10>>, <<"amount", 3, 0, 10>>,
              <<"direction", 0, 0, 3600>> >>
      [] k = "Glitch" ->
           << <<"intensity", 5, 0, 10>>, <<"amount", 3, 0, 10>>,
              <<"frequency", 5, 0, 10>> >>
      [] k = "Posterize" ->
           << <<"intensity", 10, 0, 10>>, <<"levels", 1280, 20, 2560>> >>
      [] k = "Invert" -> << <<"intensity", 10, 0, 10>> >>
      [] k = "Grayscale" -> << <<"intensity", 10, 0, 10>> >>

\* values a caller may pass, in tenths: below every minimum, inside the
\* unit range, inside the wide ranges only, above every maximum
ParamValues == {-5, 3, 20, 3700}

\* glm::max(x, y): (x < y) ? y : x
glm_max(x, y) == IF x < y THEN y ELSE x

\* glm::min(x, y): (y < x) ? y : x
glm_min(x, y) == IF y < x THEN y ELSE x

\* a clamp that forgets the lower bound
glm_clamp_upperOnly(x, minVal, maxVal) == glm_min(x, maxVal)

\* glm::clamp(x, minVal, maxVal): min(max(x, minVal), maxVal)
glm_clamp(x, minVal, maxVal) == glm_min(glm_max(x, minVal), maxVal)

\* a defineParameter that registers the definition but starts the value at 0
defineParameter_zeroValue(st, name, defaultVal, minVal, maxVal) ==
    [defs   |-> MapPut(st.defs, name, [defaultValue |-> defaultVal,
                                       minValue |-> minVal,
                                       maxValue |-> maxVal]),
     params |-> MapPut(st.params, name, 0)]

\* GPUEffect::defineParameter(name, uniformName, defaultVal, minVal, maxVal)
\* on st = [defs, params]
defineParameter(st, name, defaultVal, minVal, maxVal) ==
    [defs   |-> MapPut(st.defs, name, [defaultValue |-> defaultVal,
                                       minValue |-> minVal,
                                       maxValue |-> maxVal]),
     params |-> MapPut(st.params, name, defaultVal)]

RECURSIVE DefineAll(_, _)
\* the constructor body: its defineParameter calls one after the other
DefineAll(st, decls) ==
    IF decls = <<>> THEN st
    ELSE DefineAll(defineParameter(st, Head(decls)[1], Head(decls)[2],
                                   Head(decls)[3], Head(decls)[4]),
                   Tail(decls))

\* the constructor of concrete effect k: GPUEffect's members at their
\* initializers, then the defineParameter calls
Construct(k) == DefineAll([defs |-> EmptyMap, params |-> EmptyMap], Declared(k))

\* GPUEffect::getParameter(paramName) on a parameter map
getParameterIn(params, paramName) ==
    IF paramName \in DOMAIN params THEN params[paramName] ELSE 0

\* GPUEffect::getParameter(paramName)
getParameter(paramName) == getParameterIn(m_parameters, paramName)

\* setParameter that stores the value as given
setParameter_noClamp(paramName, value) ==
    /\ IF paramName \in DOMAIN m_parameterDefinitions
       THEN /\ m_parameters' = MapPut(m_parameters, paramName, value)
            /\ plast' = [op |-> "setParameter", name |-> paramName,
                         value |-> value, ret |-> TRUE]
       ELSE /\ UNCHANGED m_parameters
            /\ plast' = [op |-> "setParameter", name |-> paramName,
                         value |-> value, ret |-> FALSE]
    /\ UNCHANGED <<kind, m_parameterDefinitions, m_intensity, fx_enabled>>

\* setParameter that stores the value of an undefined name before it
\* reports the failure
setParameter_storeUnknown(paramName, value) ==
    /\ IF paramName \in DOMAIN m_parameterDefinitions
       THEN LET def == m_parameterDefinitions[paramName] IN
            /\ m_parameters' = MapPut(m_parameters, paramName,
                                      glm_clamp(value, def.minValue,
                                                def.maxValue))
            /\ plast' = [op |-> "setParameter", name |-> paramName,
                         value |-> value, ret |-> TRUE]
       ELSE /\ m_parameters' = MapPut(m_parameters, paramName, value)
            /\ plast' = [op |-> "setParameter", name |-> paramName,
                         value |-> value, ret |-> FALSE]
    /\ UNCHANGED <<kind, m_parameterDefinitions, m_intensity, fx_enabled>>

\* GPUEffect::setParameter(paramName, value)
setParameter(paramName, value) ==
    /\ IF paramName \in DOMAIN m_parameterDefinitions
       THEN LET def == m_parameterDefinitions[paramName] IN
            /\ m_parameters' = MapPut(m_parameters, paramName,
                                      glm_clamp(value, def.minValue,
                                                def.maxValue))
            /\ plast' = [op |-> "setParameter", name |-> paramName,
                         value |-> value, ret |-> TRUE]
       ELSE \* "Parameter not found"
            /\ UNCHANGED m_parameters
            /\ plast' = [op |-> "setParameter", name |-> paramName,
                         value |-> value, ret |-> FALSE]
    /\ UNCHANGED <<kind, m_parameterDefinitions, m_intensity, fx_enabled>>

\* number of names whose value differs between two parameter maps
Changed(before, after) ==
    Cardinality({n \in DOMAIN after :
                    n \notin DOMAIN before \/ before[n] # after[n]})

\* what a resetParameters call records: how many values it changed and, when
\* the call before it was a resetParameters too, how many that one changed
ResetRecord(after) ==
    [op |-> "resetParameters",
     changed |-> Changed(m_parameters, after),
     prev |-> IF plast.op = "resetParameters" THEN plast.changed ELSE -1]

\* a reset that sets every defined name to the minimum of its range
resetParameters_toMinimum ==
    LET after == [n \in (DOMAIN m_parameters) \cup
                        (DOMAIN m_parameterDefinitions) |->
                     IF n \in DOMAIN m_parameterDefinitions
                     THEN m_parameterDefinitions[n].minValue
                     ELSE m_parameters[n]]
    IN
    /\ m_parameters' = after
    /\ plast' = ResetRecord(after)
    /\ UNCHANGED <<kind, m_parameterDefinitions, m_intensity, fx_enabled>>

\* GPUEffect::resetParameters(): every defined name back to its default
resetParameters ==
    LET after == [n \in (DOMAIN m_parameters) \cup
                        (DOMAIN m_parameterDefinitions) |->
                     IF n \in DOMAIN m_parameterDefinitions
                     THEN m_parameterDefinitions[n].defaultValue
                     ELSE m_parameters[n]]
    IN
    /\ m_parameters' = after
    /\ plast' = ResetRecord(after)
    /\ UNCHANGED <<kind, m_parameterDefinitions, m_intensity, fx_enabled>>

\* GPUEffect::setIntensity(intensity): clamped to [0.0, 1.0]
setIntensity(intensity) ==
    /\ m_intensity' = glm_clamp(intensity, 0, 10)
    /\ plast' = [op |-> "setIntensity", value |-> intensity]
    /\ UNCHANGED <<kind, m_parameterDefinitions, m_parameters, fx_enabled>>

\* GPUEffect::setEnabled(enabled)
setEnabled(enabled) ==
    /\ fx_enabled' = enabled
    /\ plast' = [op |-> "setEnabled", value |-> enabled]
    /\ UNCHANGED <<kind, m_parameterDefinitions, m_parameters, m_intensity>>

\* parameter names a caller may pass: the names the effect defines, a name
\* only some effects define, and one that no effect defines
ParamNames == (DOMAIN m_parameterDefinitions) \cup {"radius", "bogus"}

\* one of the eleven effects right after its constructor returned:
\* m_intensity = 1.0f, m_enabled = true
ParamInit ==
    /\ RInit
    /\ SIdle
    /\ AIdle
    /\ TIdle
    /\ kind \in Kinds
    /\ m_parameterDefinitions = Construct(kind).defs
    /\ m_parameters = Construct(kind).params
    /\ m_intensity = 10
    /\ fx_enabled = TRUE
    /\ plast = [op |-> "construct"]

ParamNext ==
    /\ \/ \E n \in ParamNames, v \in ParamValues : setParameter(n, v)
       \/ resetParameters
       \/ \E v \in ParamValues : setIntensity(v)
       \/ \E b \in BOOLEAN : setEnabled(b)
    /\ UNCHANGED <<rvars, svars, avars, tvars>>

ParamSpec == ParamInit /\ [][ParamNext]_vars

(***************************************************************************)
(* Part II : properties of the parameter model                             *)
(***************************************************************************)
\* clamp(v, lo, hi) as the specification states it
Clamp(v, lo, hi) == IF v < lo THEN lo ELSE IF v > hi THEN hi ELSE v

\* C7: setParameter of a defined parameter (min <= max) returns true, the
\* next getParameter of it is clamp(v, min, max), and no other parameter's
\* value changes
C7_SetParameterClamps ==
    [][(/\ plast'.op = "setParameter"
        /\ plast'.name \in DOMAIN m_parameterDefinitions
        /\ m_parameterDefinitions[plast'.name].minValue
             <= m_parameterDefinitions[plast'.name].maxValue)
       => /\ plast'.ret = TRUE
          /\ getParameterIn(m_parameters', plast'.name)
               = Clamp(plast'.value,
                       m_parameterDefinitions[plast'.name].minValue,
                       m_parameterDefinitions[plast'.name].maxValue)
          /\ DOMAIN m_parameters' = DOMAIN m_parameters
          /\ \A n \in DOMAIN m_parameters :
                n # plast'.name => m_parameters'[n] = m_parameters[n]]_vars

\* C7 witness: a value above the maximum was set and came back as the
\* maximum, on an effect that has other parameters
C7_Witness ==
    /\ plast.op = "setParameter"
    /\ plast.ret = TRUE
    /\ plast.value > m_parameterDefinitions[plast.name].maxValue
    /\ getParameter(plast.name) = m_parameterDefinitions[plast.name].maxValue
    /\ Cardinality(DOMAIN m_parameters) > 1

\* C8: every stored parameter value lies within the bounds of its definition
C8_ValuesWithinBounds ==
    \A n \in DOMAIN m_parameters :
        /\ n \in DOMAIN m_parameterDefinitions
        /\ m_parameterDefinitions[n].minValue <= m_parameters[n]
        /\ m_parameters[n] <= m_parameterDefinitions[n].maxValue

\* C8 witness: a value below the minimum was passed to setParameter of a
\* parameter whose minimum is not 0
C8_Witness ==
    /\ plast.op = "setParameter"
    /\ plast.ret = TRUE
    /\ plast.value < m_parameterDefinitions[plast.name].minValue
    /\ m_parameterDefinitions[plast.name].minValue > 0

\* C9: setParameter of an undefined name returns false, adds no entry,
\* leaves every value as it was, and getParameter of that name is still 0.0
C9_UnknownParameterRejected ==
    [][(/\ plast'.op = "setParameter"
        /\ plast'.name \notin DOMAIN m_parameterDefinitions)
       => /\ plast'.ret = FALSE
          /\ m_parameters' = m_parameters
          /\ plast'.name \notin DOMAIN m_parameters'
          /\ getParameterIn(m_parameters', plast'.name) = 0]_vars

\* C9 witness: an undefined name was set to a non-zero value on an effect
\* whose parameters had been changed before
C9_Witness ==
    /\ plast.op = "setParameter"
    /\ plast.ret = FALSE
    /\ plast.value # 0
    /\ \E n \in DOMAIN m_parameters :
          m_parameters[n] # m_parameterDefinitions[n].defaultValue

\* C10: right after construction getParameter of every declared parameter
\* is the default value its constructor declared
C10_DefaultsAfterConstruction ==
    plast.op = "construct" =>
        \A i \in DOMAIN Declared(kind) :
            getParameter(Declared(kind)[i][1]) = Declared(kind)[i][2]

\* C10 witness: a freshly constructed effect with a default that is neither
\* 0 nor a bound of its range
C10_Witness ==
    /\ plast.op = "construct"
    /\ \E n \in DOMAIN m_parameters :
          /\ m_parameters[n] # 0
          /\ m_parameters[n] # m_parameterDefinitions[n].minValue
          /\ m_parameters[n] # m_parameterDefinitions[n].maxValue

\* C11: resetParameters sets every defined parameter to its default value,
\* and a resetParameters call that directly follows another leaves the
\* parameter map as the first one left it
C11_ResetRestoresDefaultsIdempotent ==
    [][plast'.op = "resetParameters" =>
          /\ \A n \in DOMAIN m_parameterDefinitions :
                /\ n \in DOMAIN m_parameters'
                /\ getParameterIn(m_parameters', n)
                     = m_parameterDefinitions[n].defaultValue
          /\ plast.op = "resetParameters" => m_parameters' = m_parameters]_vars

\* C11 witness: a second resetParameters changed nothing right after a first
\* one that had put changed values back
C11_Witness ==
    /\ plast.op = "resetParameters"
    /\ plast.prev > 0
    /\ plast.changed = 0

(***************************************************************************)
(* Part III : ShaderProgram                                                *)
(*                                                                         *)
(* A shader source is modelled by what the GL compiler does with it: the   *)
(* stage compiles ("ok"), fails and reports an info log ("error"), or      *)
(* fails with an empty info log ("errorNoLog"); the geometry source may be *)
(* empty ("none").  The link step has the same three outcomes.             *)
(***************************************************************************)
StageOutcomes == {"ok", "error", "errorNoLog"}

\* ShaderSource values handed to compile(), with the outcome of the link
ShaderSources ==
    [vertex : StageOutcomes, fragment : StageOutcomes,
     geometry : StageOutcomes \cup {"none"}, link : StageOutcomes]

ProgramNames == 1..MaxPrograms

\* the info log text the GL reports for a failed stage
InfoLog(stage) ==
    CASE stage = "vertex"   -> "vertex info log"
      [] stage = "fragment" -> "fragment info log"
      [] stage = "geometry" -> "geometry info log"
      [] stage = "link"     -> "link info log"

\* ShaderProgram::isValid(): m_programId != 0
isValid == m_programId # 0

\* ShaderProgram::getLastError()
getLastError == m_lastError

\* ShaderProgram::compileShader(type, source) with lastError the value of
\* m_lastError at the call: the shader handle (1) or 0, and m_lastError
\* afterwards (the info log, when the GL reported one)
compileShader(lastError, stage, outcome) ==
    IF outcome = "ok"
    THEN [shader |-> 1, lastError |-> lastError]
    ELSE [shader |-> 0,
          lastError |-> IF outcome = "error" THEN InfoLog(stage)
                        ELSE lastError]

\* glCreateProgram: the lowest name that is not a live program object
GenProgram(programs) ==
    CHOOSE q \in ProgramNames \ DOMAIN programs :
        \A r \in ProgramNames \ DOMAIN programs : q <= r

\* ShaderProgram::linkProgram on sp = [programId, lastError, programs]:
\* m_programId is overwritten by a new program object; when the link fails
\* that object is deleted and m_programId becomes 0
linkProgram(sp, outcome) ==
    LET id == GenProgram(sp.programs) IN
    IF outcome = "ok"
    THEN [ok |-> TRUE, programId |-> id, lastError |-> sp.lastError,
          programs |-> MapPut(sp.programs, id, TRUE)]
    ELSE [ok |-> FALSE, programId |-> 0,
          lastError |-> IF outcome = "error" THEN InfoLog("link")
                        ELSE sp.lastError,
          programs |-> sp.programs]

\* the stage at which compileFromSources stops, "none" when it succeeds
FailingStage(source) ==
    IF source.vertex # "ok" THEN "vertex"
    ELSE IF source.fragment # "ok" THEN "fragment"
    ELSE IF source.geometry \notin {"ok", "none"} THEN "geometry"
    ELSE IF source.link # "ok" THEN "link"
    ELSE "none"

\* ShaderProgram::compileFromSources as a function of the object's state
\* sp = [programId, lastError, programs]
compileFromSources(sp, source) ==
    LET v == compileShader(sp.lastError, "vertex", source.vertex) IN
    IF v.shader = 0
    THEN [ret |-> FALSE, programId |-> sp.programId,
          lastError |-> "Failed to compile vertex shader",
          programs |-> sp.programs]
    ELSE
    LET f == compileShader(v.lastError, "fragment", source.fragment) IN
    IF f.shader = 0
    THEN [ret |-> FALSE, programId |-> sp.programId,
          lastError |-> "Failed to compile fragment shader",
          programs |-> sp.programs]
    ELSE
    LET g == IF source.geometry # "none"
             THEN compileShader(f.lastError, "geometry", source.geometry)
             ELSE [shader |-> 0, lastError |-> f.lastError]
    IN
    IF source.geometry # "none" /\ g.shader = 0
    THEN [ret |-> FALSE, programId |-> sp.programId,
          lastError |-> "Failed to compile geometry shader",
          programs |-> sp.programs]
    ELSE
    LET l == linkProgram([sp EXCEPT !.lastError = g.lastError], source.link) IN
    IF ~l.ok
    THEN [ret |-> FALSE, programId |-> l.programId,
          lastError |-> "Failed to link shader program",
          programs |-> l.programs]
    ELSE [ret |-> TRUE, programId |-> l.programId,
          lastError |-> l.lastError, programs |-> l.programs]

\* ShaderProgram::compile(source)
compile(source) ==
    LET r == compileFromSources([programId |-> m_programId,
                                 lastError |-> m_lastError,
                                 programs |-> glPrograms], source)
    IN
    \* the GL can hand out a program name when the link step is reached
    /\ FailingStage(source) \in {"link", "none"}
          => ProgramNames \ DOMAIN glPrograms # {}
    /\ m_programId' = r.programId
    /\ m_lastError' = r.lastError
    /\ glPrograms' = r.programs
    /\ slast' = [op |-> "compile", source |-> source, ret |-> r.ret,
                 failed |-> FailingStage(source),
                 wasValid |-> isValid]

\* a ShaderProgram after ShaderProgram::ShaderProgram(): m_programId = 0,
\* m_lastError empty, no program object
ShaderInit ==
    /\ RInit
    /\ PIdle
    /\ m_programId = 0
    /\ m_lastError = ""
    /\ glPrograms = EmptyMap
    /\ slast = [op |-> "construct"]
    /\ AIdle
    /\ TIdle

ShaderNext ==
    /\ \E source \in ShaderSources : compile(source)
    /\ UNCHANGED <<rvars, pvars, avars, tvars>>

ShaderSpec == ShaderInit /\ [][ShaderNext]_vars

(***************************************************************************)
(* Part III : properties of ShaderProgram                                  *)
(***************************************************************************)
\* C12 (as claimed): whenever compile() returns false, whichever stage
\* failed and whatever the state of the program before the call, isValid()
\* is false right afterwards and no program object that is not linked
\* remains allocated
C12_FailedCompileInvalidates ==
    (slast.op = "compile" /\ slast.ret = FALSE) =>
        /\ ~isValid
        /\ \A q \in DOMAIN glPrograms : glPrograms[q]

\* C20 (as claimed): after compile() returned false because a stage failed
\* to compile or the program failed to link, and the GL reported an info
\* log for that stage, getLastError() is that info log text
C20_LastErrorIsInfoLog ==
    (/\ slast.op = "compile"
     /\ slast.ret = FALSE
     /\ slast.source[slast.failed] = "error")
    => getLastError = InfoLog(slast.failed)

(***************************************************************************)
(* Part IV : GPUEffect::apply                                              *)
(*                                                                         *)
(* One apply() is modelled by the sequence of calls it makes on the GL and *)
(* on its ShaderProgram.  uniform values are in thousandths (tenths * 100) *)
(* so that the products the hooks compute stay exact.                      *)
(*                                                                         *)
(* The constructors of the concrete effects pass a null shader; m_shader   *)
(* is a protected member (gpu_effect.h:188) that a derived class fills in, *)
(* so the effect is taken with each of a null, a not valid and a valid     *)
(* shader.                                                                 *)
(***************************************************************************)
\* the ShaderProgram pointers an effect can hold
Shaders == {"null", "notValid", "valid"}

\* <<width, height>> pairs a caller passes to apply()
RenderSizes == {<<4, 2>>, <<64, 64>>}

\* framebuffers a caller passes to apply() as the output
OutputFramebuffers == {1, 2}

\* texture handles of a LUT or a curve; 0 is "none"
AuxTextures == {0, 7}

\* values of GlitchEffect::setTime, in tenths
Times == {0, 5}

\* parameter and intensity values set before an apply, in tenths
ApplyValues == {3, 3700}

\* a float in tenths as a uniform value in thousandths
Milli(t) == t * 100

\* one call made by apply(): the function, the uniform or target it names,
\* and its numeric arguments
Call(c, a, v) == [call |-> c, arg |-> a, value |-> v]

\* ShaderProgram::setUniform(name, float)
setUniformFloat(name, milli) == Call("setUniform1f", name, <<milli>>)

\* ShaderProgram::setUniform(name, int)
setUniformInt(name, i) == Call("setUniform1i", name, <<i>>)

\* ShaderProgram::setUniform(name, glm::vec2)
setUniformVec2(name, x, y) == Call("setUniform2f", name, <<x, y>>)

\* GPUEffect::isAvailable() of the effect: m_shader && m_shader->isValid()
fx_isAvailable == m_shader # "null" /\ m_shader = "valid"

\* GPUEffect::getIntensity() as a uniform value
getIntensity == Milli(m_intensity)

\* glm::cos of a direction given in tenths of a degree, in thousandths,
\* for the directions the model sets (0, 0.3 and 360 degrees)
CosMilli(direction) == 1000

\* glm::sin of a direction given in tenths of a degree, in thousandths
SinMilli(direction) == IF direction = 3 THEN 5 ELSE 0

\* the second texture unit bound by the ColorGrade and Curves hooks
auxUnit(texture, uniform) ==
    IF texture # 0
    THEN << Call("glActiveTexture", "GL_TEXTURE1", <<1>>),
            Call("glBindTexture", "GL_TEXTURE_2D", <<texture>>),
            setUniformInt(uniform, 1) >>
    ELSE << >>

\* applyCustomUniforms(inputTexture, width, height) of concrete effect k
applyCustomUniforms(k, inputTexture, width, height) ==
    IF m_shader = "null" THEN << >>
    ELSE
    CASE k = "ColorGrade" ->
           auxUnit(m_lutTexture, "uLUT") \o
           << setUniformFloat("uTemperature", Milli(getParameter("temperature"))),
              setUniformFloat("uTint", Milli(getParameter("tint"))) >>
      [] k = "Curves" ->
           auxUnit(m_curveTexture, "uCurveTexture") \o
           << setUniformFloat("uRedMidtone", Milli(getParameter("redMidtone"))),
              setUniformFloat("uGreenMidtone", Milli(getParameter("greenMidtone"))),
              setUniformFloat("uBlueMidtone", Milli(getParameter("blueMidtone"))),
              setUniformFloat("uLuminanceMidtone",
                              Milli(getParameter("luminanceMidtone"))) >>
      [] k = "HSL" ->
           << setUniformFloat("uHue", (getParameter("hue") * 2 - 10) * 18000),
              setUniformFloat("uSaturation",
                              Milli(getParameter("saturation") * 2 - 10)),
              setUniformFloat("uLightness",
                              Milli(getParameter("lightness") * 2 - 10)) >>
      [] k = "GaussianBlur" ->
           << setUniformVec2("uTexelSize", 1000 \div width, 1000 \div height),
              setUniformFloat("uRadius", Milli(getParameter("radius"))) >>
      [] k = "Vignette" ->
           << setUniformFloat("uRadius", Milli(getParameter("radius"))),
              setUniformFloat("uIntensity",
                              m_intensity * getParameter("softness") * 10) >>
      [] k = "Glow" ->
           << setUniformFloat("uThreshold", Milli(getParameter("threshold"))),
              setUniformFloat("uIntensity",
                              m_intensity * (10 + getParameter("spread") * 2) * 10) >>
      [] k = "ChromaticAberration" ->
           << setUniformVec2("uOffset",
                  (CosMilli(getParameter("direction")) * getParameter("amount") * 2)
                      \div 1000,
                  (SinMilli(getParameter("direction")) * getParameter("amount") * 2)
                      \div 1000) >>
      [] k = "Glitch" ->
           << setUniformFloat("uAmount", Milli(getParameter("amount"))),
              setUniformFloat("uFrequency", Milli(getParameter("frequency"))),
              setUniformFloat("uTime", Milli(m_time)) >>
      [] k = "Posterize" ->
           << setUniformFloat("uLevels", Milli(getParameter("levels"))) >>
      [] k \in {"Invert", "Grayscale"} -> << >>

\* GPUEffect::initializeQuad(): the calls that build the quad geometry
initializeQuad ==
    << Call("glGenVertexArrays", "s_quadVAO", <<1>>),
       Call("glGenBuffers", "s_quadVBO", <<1>>),
       Call("glGenBuffers", "quadEBO", <<1>>),
       Call("glBindVertexArray", "s_quadVAO", <<1>>),
       Call("glBindBuffer", "GL_ARRAY_BUFFER", <<1>>),
       Call("glBufferData", "GL_ARRAY_BUFFER", <<16>>),
       Call("glBindBuffer", "GL_ELEMENT_ARRAY_BUFFER", <<1>>),
       Call("glBufferData", "GL_ELEMENT_ARRAY_BUFFER", <<6>>),
       Call("glEnableVertexAttribArray", "position", <<0>>),
       Call("glVertexAttribPointer", "position", <<0, 2>>),
       Call("glEnableVertexAttribArray", "texCoord", <<1>>),
       Call("glVertexAttribPointer", "texCoord", <<1, 2>>),
       Call("glBindVertexArray", "none", <<0>>) >>

\* an apply() that writes the generic intensity before it calls the hook
ApplyCalls_intensityBeforeHook(inputTexture, outputFramebuffer, width, height) ==
    (IF ~s_quadInitialized THEN initializeQuad ELSE << >>) \o
    << Call("glUseProgram", "m_programId", <<1>>),
       Call("glBindFramebuffer", "GL_FRAMEBUFFER", <<outputFramebuffer>>),
       Call("glViewport", "", <<0, 0, width, height>>),
       Call("glActiveTexture", "GL_TEXTURE0", <<0>>),
       Call("glBindTexture", "GL_TEXTURE_2D", <<inputTexture>>),
       setUniformInt("uTexture", 0),
       Call("glBindVertexArray", "s_quadVAO", <<1>>),
       setUniformFloat("uIntensity", getIntensity) >> \o
    applyCustomUniforms(kind, inputTexture, width, height) \o
    << Call("glDrawArrays", "GL_TRIANGLE_STRIP", <<0, 4>>),
       Call("glBindVertexArray", "none", <<0>>),
       Call("glBindFramebuffer", "GL_FRAMEBUFFER", <<0>>),
       Call("glBindTexture", "GL_TEXTURE_2D", <<0>>) >>

\* the calls of apply() once the effect is available and enabled
ApplyCalls(inputTexture, outputFramebuffer, width, height) ==
    (IF ~s_quadInitialized THEN initializeQuad ELSE << >>) \o
    << Call("glUseProgram", "m_programId", <<1>>),
       Call("glBindFramebuffer", "GL_FRAMEBUFFER", <<outputFramebuffer>>),
       Call("glViewport", "", <<0, 0, width, height>>),
       Call("glActiveTexture", "GL_TEXTURE0", <<0>>),
       Call("glBindTexture", "GL_TEXTURE_2D", <<inputTexture>>),
       setUniformInt("uTexture", 0),
       Call("glBindVertexArray", "s_quadVAO", <<1>>) >> \o
    applyCustomUniforms(kind, inputTexture, width, height) \o
    << setUniformFloat("uIntensity", getIntensity),
       Call("glDrawArrays", "GL_TRIANGLE_STRIP", <<0, 4>>),
       Call("glBindVertexArray", "none", <<0>>),
       Call("glBindFramebuffer", "GL_FRAMEBUFFER", <<0>>),
       Call("glBindTexture", "GL_TEXTURE_2D", <<0>>) >>

\* an apply() that goes on to draw whether or not the shader is available
GPUEffect_apply_noAvailabilityCheck(inputTexture, outputFramebuffer, width, height) ==
    LET call == [op |-> "apply", input |-> inputTexture,
                 fbo |-> outputFramebuffer, width |-> width, height |-> height]
    IN
    /\ IF ~fx_enabled
       THEN /\ plast' = call @@ [ret |-> TRUE, calls |-> << >>]
            /\ UNCHANGED s_quadInitialized
       ELSE /\ plast' = call @@
                  [ret |-> TRUE,
                   calls |-> ApplyCalls(inputTexture, outputFramebuffer,
                                        width, height)]
            /\ s_quadInitialized' = TRUE
    /\ UNCHANGED <<kind, m_parameterDefinitions, m_parameters, m_intensity,
                   fx_enabled, m_shader, m_lutTexture, m_curveTexture, m_time>>

\* GPUEffect::apply(inputTexture, outputFramebuffer, width, height)
GPUEffect_apply(inputTexture, outputFramebuffer, width, height) ==
    LET call == [op |-> "apply", input |-> inputTexture,
                 fbo |-> outputFramebuffer, width |-> width, height |-> height]
    IN
    /\ IF ~fx_isAvailable
       THEN \* "Effect not available"
            /\ plast' = call @@ [ret |-> FALSE, calls |-> << >>]
            /\ UNCHANGED s_quadInitialized
       ELSE IF ~fx_enabled
       THEN /\ plast' = call @@ [ret |-> TRUE, calls |-> << >>]
            /\ UNCHANGED s_quadInitialized
       ELSE /\ plast' = call @@
                  [ret |-> TRUE,
                   calls |-> ApplyCalls(inputTexture, outputFramebuffer,
                                        width, height)]
            /\ s_quadInitialized' = TRUE
    /\ UNCHANGED <<kind, m_parameterDefinitions, m_parameters, m_intensity,
                   fx_enabled, m_shader, m_lutTexture, m_curveTexture, m_time>>

\* ColorGradeEffect::setLUT(lutTexture)
setLUT(lutTexture) ==
    /\ kind = "ColorGrade"
    /\ m_lutTexture' = lutTexture
    /\ plast' = [op |-> "setLUT", value |-> lutTexture]
    /\ UNCHANGED <<kind, m_parameterDefinitions, m_parameters, m_intensity,
                   fx_enabled, m_shader, s_quadInitialized, m_curveTexture,
                   m_time>>

\* CurvesEffect::setCurveTexture(curveTexture)
setCurveTexture(curveTexture) ==
    /\ kind = "Curves"
    /\ m_curveTexture' = curveTexture
    /\ plast' = [op |-> "setCurveTexture", value |-> curveTexture]
    /\ UNCHANGED <<kind, m_parameterDefinitions, m_parameters, m_intensity,
                   fx_enabled, m_shader, s_quadInitialized, m_lutTexture,
                   m_time>>

\* GlitchEffect::setTime(time)
setTime(time) ==
    /\ kind = "Glitch"
    /\ m_time' = time
    /\ plast' = [op |-> "setTime", value |-> time]
    /\ UNCHANGED <<kind, m_parameterDefinitions, m_parameters, m_intensity,
                   fx_enabled, m_shader, s_quadInitialized, m_lutTexture,
                   m_curveTexture>>

\* storing a fragment colour channel, given in 1/10000 of an 8-bit step,
\* in a GL_UNSIGNED_BYTE colour texture: rounded to the nearest step
ToUnorm8(x) == (x + 5000) \div 10000

\* FRAGMENT_GRAYSCALE on one texel <<r, g, b, a>> of 8-bit channels with
\* uIntensity in tenths: gray = dot(rgb, (0.299, 0.587, 0.114)),
\* outColor = mix(color, (gray, gray, gray, a), uIntensity)
FRAGMENT_GRAYSCALE(color, uIntensity) ==
    LET gray == 299 * color[1] + 587 * color[2] + 114 * color[3]
        mix(x, y) == x * (10 - uIntensity) + y * uIntensity
    IN  << ToUnorm8(mix(1000 * color[1], gray)),
           ToUnorm8(mix(1000 * color[2], gray)),
           ToUnorm8(mix(1000 * color[3], gray)),
           ToUnorm8(mix(1000 * color[4], 1000 * color[4])) >>

\* one of the eleven effects after its constructor returned, holding a
\* null, a not valid or a valid shader; the quad geometry is static and
\* may have been built by another effect already
ApplyInit ==
    /\ RInit
    /\ SIdle
    /\ TIdle
    /\ kind \in Kinds
    /\ m_parameterDefinitions = Construct(kind).defs
    /\ m_parameters = Construct(kind).params
    /\ m_intensity = 10
    /\ fx_enabled = TRUE
    /\ plast = [op |-> "construct"]
    /\ m_shader \in Shaders
    /\ s_quadInitialized \in BOOLEAN
    /\ m_lutTexture = 0
    /\ m_curveTexture = 0
    /\ m_time = 0

ApplyNext ==
    /\ \/ /\ \/ \E n \in DOMAIN m_parameterDefinitions, v \in ApplyValues :
                   setParameter(n, v)
             \/ \E v \in ApplyValues : setIntensity(v)
             \/ \E b \in BOOLEAN : setEnabled(b)
          /\ UNCHANGED avars
       \/ \E t \in AuxTextures : setLUT(t)
       \/ \E t \in AuxTextures : setCurveTexture(t)
       \/ \E t \in Times : setTime(t)
       \/ \E t \in InputTextures, f \in OutputFramebuffers, size \in RenderSizes :
              GPUEffect_apply(t, f, size[1], size[2])
    /\ UNCHANGED <<rvars, svars, tvars>>

ApplySpec == ApplyInit /\ [][ApplyNext]_vars

(***************************************************************************)
(* Part IV : properties of apply()                                         *)
(***************************************************************************)
\* C13: apply() on an enabled effect whose shader is absent or not valid
\* returns false and makes no call on the GL or the shader: no bind, no
\* uniform write, no quad geometry, no draw
C13_UnavailableApplyFailsCleanly ==
    [][(plast'.op = "apply" /\ fx_enabled /\ ~fx_isAvailable) =>
          /\ plast'.ret = FALSE
          /\ plast'.calls = << >>
          /\ s_quadInitialized' = s_quadInitialized]_vars

\* C13 witness: an enabled concrete effect, built with a null shader as its
\* constructor does, was applied before any quad geometry existed
C13_Witness ==
    /\ plast.op = "apply"
    /\ plast.ret = FALSE
    /\ fx_enabled
    /\ m_shader = "null"
    /\ ~s_quadInitialized

\* C14 (as claimed): apply() on a disabled effect returns true and makes no
\* GL call, whether or not its shader ever compiled
C14_DisabledApplySucceeds ==
    (plast.op = "apply" /\ ~fx_enabled) =>
        /\ plast.ret = TRUE
        /\ plast.calls = << >>

\* the calls of the last apply
Calls == plast.calls

\* positions of the draw calls of the last apply
Draws == {i \in Indices(Calls) : Calls[i].call = "glDrawArrays"}

\* the last position before position d at which call c was made, 0 if none
LastBefore(d, c) ==
    LET P == {i \in 1..(d - 1) : Calls[i] = c} IN
    IF P = {} THEN 0 ELSE CHOOSE i \in P : \A j \in P : j <= i

\* the last write of uniform u before position d, 0 if none
LastWrite(d, u) ==
    LET P == {i \in 1..(d - 1) :
                 Calls[i].call = "setUniform1f" /\ Calls[i].arg = u} IN
    IF P = {} THEN 0 ELSE CHOOSE i \in P : \A j \in P : j <= i

\* the last apply bound the output framebuffer and set the viewport, bound
\* the input texture on unit 0, bound the quad, ran the hook of the effect,
\* wrote getIntensity() to uIntensity and then drew once, in that order
StepsInOrder ==
    /\ Cardinality(Draws) = 1
    /\ LET d     == CHOOSE i \in Draws : TRUE
           iFbo  == LastBefore(d, Call("glBindFramebuffer", "GL_FRAMEBUFFER",
                                       <<plast.fbo>>))
           iView == LastBefore(d, Call("glViewport", "",
                                       <<0, 0, plast.width, plast.height>>))
           iUnit == LastBefore(d, Call("glActiveTexture", "GL_TEXTURE0", <<0>>))
           iTex  == LastBefore(d, Call("glBindTexture", "GL_TEXTURE_2D",
                                       <<plast.input>>))
           iQuad == LastBefore(d, Call("glBindVertexArray", "s_quadVAO", <<1>>))
           iInt  == LastWrite(d, "uIntensity")
           hook  == applyCustomUniforms(kind, plast.input, plast.width,
                                        plast.height)
       IN  /\ 0 < iFbo /\ iFbo < iView /\ iView < iUnit /\ iUnit < iTex
           /\ iTex < iQuad /\ iQuad < iInt /\ iInt < d
           /\ SubSeq(Calls, iQuad + 1, iInt - 1) = hook
           /\ Calls[iInt].value = <<getIntensity>>
           /\ \A i \in (iInt + 1)..(d - 1) : Calls[i].call # "setUniform1f"

Written(u) ==
    {Calls[i].value[1] : i \in {j \in Indices(Calls) :
        Calls[j].call = "setUniform1f" /\ Calls[j].arg = u}}

\* (2p - 1) * scale in thousandths, for p in tenths
Physical(p, scale) == (2 * p - 10) * scale * 100

GrayscaleOutput(rgba) ==
    IF Draws # {} THEN FRAGMENT_GRAYSCALE(rgba, m_intensity) ELSE <<>>

\* C22 (as claimed): a default-constructed Grayscale effect with intensity
\* 1.0, applied at 64 x 64 to a solid RGBA(255, 0, 0, 255) texture, returns
\* true, draws once, and every output pixel is R = G = B = floor(0.299 * 255)
\* = 76 with alpha 255
C22_DefaultGrayscaleRenders ==
    (/\ plast.op = "apply"
     /\ kind = "Grayscale"
     /\ m_shader = "null"
     /\ fx_enabled
     /\ m_intensity = 10
     /\ plast.width = 64 /\ plast.height = 64)
    => /\ plast.ret = TRUE
       /\ Cardinality(Draws) = 1
       /\ GrayscaleOutput(<<255, 0, 0, 255>>) = <<76, 76, 76, 255>>

\* the GL binding state one call leaves: the framebuffer binding, the
\* vertex-array binding, the active texture unit and the 2D texture binding
\* of each unit; glBindTexture binds on the active unit
AfterCall(b, c) ==
    CASE c.call = "glBindFramebuffer" -> [b EXCEPT !.fbo = c.value[1]]
      [] c.call = "glBindVertexArray" -> [b EXCEPT !.vao = c.value[1]]
      [] c.call = "glActiveTexture"   -> [b EXCEPT !.unit = c.value[1]]
      [] c.call = "glBindTexture"     -> [b EXCEPT !.tex[b.unit] = c.value[1]]
      [] OTHER -> b

RECURSIVE AfterCalls(_, _, _)
\* the binding state after the calls from position i on
AfterCalls(b, calls, i) ==
    IF i > Len(calls) THEN b
    ELSE AfterCalls(AfterCall(b, calls[i]), calls, i + 1)

\* the binding state after the last apply, begun with nothing bound
Bindings ==
    AfterCalls([fbo |-> 0, vao |-> 0, unit |-> 0, tex |-> [u \in {0, 1} |-> 0]],
               Calls, 1)

RenderFailed(l) ==
    \/ l.op = "renderFrame" /\ l.ret = FALSE
    \/ l.op = "renderToTexture" /\ l.ret = 0

\* C16 (as claimed): when initialize() returns false, at whichever step,
\* isInitialized() is false afterwards, and a renderFrame or renderToTexture
\* that follows returns false or 0
C16_FailedInitializeUnusable ==
    [][/\ (last'.op = "initialize" /\ last'.ret = FALSE) => ~isInitialized'
       /\ (/\ last.op = "initialize" /\ last.ret = FALSE
           /\ last'.op \in {"renderFrame", "renderToTexture"})
          => RenderFailed(last')]_vars

C18_ShutdownFreesFramebuffers ==
    last.op = "shutdown" =>
        /\ m_intermediateFramebuffers = <<>>
        /\ glFramebuffers = EmptyMap
        /\ glTexCount = 0
        /\ glRenderbuffers = 0

\* C19: a render call in which every createFramebuffer returned 0 leaves
\* the context with the framebuffers, color textures and depth renderbuffers
\* it had, and the pool list as it was
C19_FailedCreateLeavesNothing ==
    [][(\/ /\ last'.op = "renderFrame"
           /\ last'.walked
           /\ \A i \in EnabledPositions : ~last'.plan[i]
        \/ /\ last'.op = "renderToTexture"
           /\ last'.attempted
           /\ ~last'.complete)
       => /\ glFramebuffers' = glFramebuffers
          /\ glTexCount' = glTexCount
          /\ glRenderbuffers' = glRenderbuffers
          /\ m_intermediateFramebuffers' = m_intermediateFramebuffers]_vars

\* C19 witness: createFramebuffer returned 0 for an enabled effect of the
\* chain on a context that holds framebuffers of earlier renders
C19_Witness ==
    /\ last.op = "renderFrame"
    /\ last.walked
    /\ EnabledPositions # {}
    /\ \A i \in EnabledPositions : ~last.plan[i]
    /\ glTexCount > 0
    /\ m_intermediateFramebuffers # <<>>

\* C24 (as claimed): on an initialized renderer, a renderToTexture(T) that
\* runs the chain returns the texture the chain produced for T: the color
\* texture of the framebuffer the last successful apply() of an enabled
\* effect wrote, or T itself when no effect was applied successfully
C24_RenderToTextureReturnsChainResult ==
    (last.op = "renderToTexture" /\ last.walked /\ ~last.crashed) =>
        /\ last.ret = last.chainOut
        /\ (\A k \in Indices(applyLog) : ~applyLog[k].ret)
              => last.chainOut = last.input
        /\ (\E k \in Indices(applyLog) : applyLog[k].ret)
              => last.chainOut = TextureBefore(Len(applyLog) + 1)

\* C25 (as claimed): over the life of a renderer every handle in the pool
\* list refers to a framebuffer that has not been deleted, and no handle is
\* listed twice, so that neither releaseIntermediateFramebuffer nor the
\* loop of shutdown passes a handle to deleteFramebuffer a second time
C25_PoolHandlesLiveDeletedOnce ==
    /\ \A i \in Indices(m_intermediateFramebuffers) :
          m_intermediateFramebuffers[i] \in DOMAIN glFramebuffers
    /\ \A i, j \in Indices(m_intermediateFramebuffers) :
          i # j => m_intermediateFramebuffers[i] # m_intermediateFramebuffers[j]

\* the call that has just returned is a render entry point that made the
\* context current
MadeCurrent(l) ==
    \/ l.op = "renderFrame" /\ l.walked
    \/ l.op = "renderToTexture" /\ l.attempted
    \/ l.op = "applyEffect" /\ l.made

\* C26 (as claimed): renderFrame, renderToTexture and applyEffect, once they
\* have made the context current, have released it again when they return,
\* on every return path, framebuffer-creation failure included
C26_EntryPointsReleaseContext ==
    [][MadeCurrent(last') => ~egl_current']_vars

(***************************************************************************)
(* Part V : GPUBridge (jni_bridge/gpu_bridge.cpp) called from threads      *)
(*                                                                         *)
(* One renderer is stored under one handle.  Three threads call the        *)
(* bridge on that handle: "param" calls setEffectParameter, "render" calls *)
(* renderToTexture and "destroy" calls destroyRenderer.  Each call is cut  *)
(* into steps at the points where it takes or gives up g_rendererMutex and *)
(* where it reads or writes a member of the renderer or of an effect; the  *)
(* steps of different threads interleave freely.  A thread holds the mutex *)
(* only inside getRenderer and inside destroyRenderer.                     *)
(*                                                                         *)
(* createRenderer offers the eleven concrete effects to addEffect, which   *)
(* refuses every effect that has a name, and the concrete constructors     *)
(* pass a null shader; the renderer is taken with the chain empty, as      *)
(* createRenderer leaves it, and with an HSL effect registered, with and   *)
(* without a valid shader.  The context was made current by initialize on  *)
(* the render thread; the other threads never have it current.             *)
(***************************************************************************)
\* g_nextRendererPtr at the first storeRenderer
Handle == 1000

\* names GPUBridge::setEffectParameter is called with: the registered
\* effect and one that is not registered
BridgeEffectNames == {"A", "B"}

\* parameter names it is called with: one HSLEffect defines, one it does not
BridgeParamNames == {"hue", "bogus"}

\* values it is called with, in tenths
BridgeValues == {3, 3700}

\* a bridge function returns v on thread t: its locals are destroyed
Return(t, call, v) ==
    /\ pc' = [pc EXCEPT ![t] = "idle"]
    /\ renderer' = [renderer EXCEPT ![t] = "null"]
    /\ args' = [args EXCEPT ![t] = <<>>]
    /\ ret' = [ret EXCEPT ![t] = [call |-> call, value |-> v]]

\* thread t moves on to the step at label
Goto(t, label) ==
    /\ pc' = [pc EXCEPT ![t] = label]
    /\ UNCHANGED <<renderer, args, ret>>

\* GPUBridge::getRenderer(rendererPtr) on thread t: under the mutex, the
\* stored shared_ptr or nullptr
getRenderer(t, next) ==
    /\ pc[t] = "getRenderer"
    /\ g_rendererMutex = "free"
    /\ renderer' = [renderer EXCEPT ![t] =
                       IF Handle \in s_renderers THEN "r" ELSE "null"]
    /\ pc' = [pc EXCEPT ![t] = next]
    /\ UNCHANGED <<rvars, pvars, svars, avars, s_renderers, g_rendererMutex,
                   args, ret, hueRead>>

\* ---- thread "param": GPUBridge::setEffectParameter ----
\* the call is made
setEffectParameter_call(effectName, paramName, value) ==
    /\ pc["param"] = "idle"
    /\ pc' = [pc EXCEPT !["param"] = "getRenderer"]
    /\ args' = [args EXCEPT !["param"] = [effectName |-> effectName,
                                          paramName |-> paramName,
                                          value |-> value]]
    /\ UNCHANGED <<rvars, pvars, svars, avars, s_renderers, g_rendererMutex,
                   renderer, ret, hueRead>>

\* "auto renderer = getRenderer(rendererPtr)"
setEffectParameter_getRenderer == getRenderer("param", "getEffect")

\* "if (!renderer) return JNI_FALSE; auto effect = renderer->getEffect(..);
\* if (!effect) return JNI_FALSE"
setEffectParameter_getEffect ==
    /\ pc["param"] = "getEffect"
    /\ IF \/ renderer["param"] = "null"
          \/ getEffect(args["param"].effectName) = nullptr
       THEN Return("param", "setEffectParameter", FALSE)
       ELSE Goto("param", "setParameter")
    /\ UNCHANGED <<rvars, pvars, svars, avars, s_renderers, g_rendererMutex,
                   hueRead>>

\* GPUEffect::setParameter up to its store: the definition is looked up;
\* without one the call returns false, with one the store into
\* m_parameters begins
setEffectParameter_setParameter ==
    /\ pc["param"] = "setParameter"
    /\ IF args["param"].paramName \in DOMAIN m_parameterDefinitions
       THEN /\ Goto("param", "writing")
            /\ UNCHANGED pvars
       ELSE /\ setParameter(args["param"].paramName, args["param"].value)
            /\ Return("param", "setEffectParameter", FALSE)
    /\ UNCHANGED <<rvars, svars, avars, s_renderers, g_rendererMutex, hueRead>>

\* the store "m_parameters[paramName] = clampedValue" completes and the
\* call returns true
setEffectParameter_store ==
    /\ pc["param"] = "writing"
    /\ setParameter(args["param"].paramName, args["param"].value)
    /\ Return("param", "setEffectParameter", TRUE)
    /\ UNCHANGED <<rvars, svars, avars, s_renderers, g_rendererMutex, hueRead>>

\* ---- thread "render": GPUBridge::renderToTexture ----
\* the call is made
renderToTexture_call(inputTexture) ==
    /\ pc["render"] = "idle"
    /\ pc' = [pc EXCEPT !["render"] = "getRenderer"]
    /\ args' = [args EXCEPT !["render"] = [inputTexture |-> inputTexture,
                                           fbo |-> 0]]
    /\ UNCHANGED <<rvars, pvars, svars, avars, s_renderers, g_rendererMutex,
                   renderer, ret, hueRead>>

\* "auto renderer = getRenderer(rendererPtr)"
renderToTexture_getRenderer == getRenderer("render", "check")

\* "if (!renderer || !renderer->isInitialized()) return 0"
renderToTexture_check ==
    /\ pc["render"] = "check"
    /\ IF renderer["render"] = "null" \/ ~isInitialized
       THEN Return("render", "renderToTexture", 0)
       ELSE Goto("render", "enter")
    /\ UNCHANGED <<rvars, pvars, svars, avars, s_renderers, g_rendererMutex,
                   hueRead>>

\* GPURenderer::renderToTexture up to makeCurrent: not initialized, or the
\* context cannot be made current: 0; else the context is current
renderToTexture_enter(makeCurrentOk) ==
    /\ pc["render"] = "enter"
    /\ IF ~isInitialized \/ ~makeCurrentOk
       THEN /\ Return("render", "renderToTexture", 0)
            /\ UNCHANGED egl_current
       ELSE /\ Goto("render", "create")
            /\ egl_current' = TRUE
    /\ UNCHANGED <<m_context, m_effects, m_effectOrder,
                   m_intermediateFramebuffers, egl_display, egl_context,
                   glFramebuffers, glTexCount, glRenderbuffers, m_enabled,
                   last, applyLog, shutdownRan>>
    /\ UNCHANGED <<pvars, svars, avars, s_renderers, g_rendererMutex, hueRead>>

\* "GLuint fbo = createIntermediateFramebuffer(); if (fbo == 0) return 0":
\* the handle is pushed onto the pool list; without a framebuffer the call
\* returns with the context still current
renderToTexture_create(complete) ==
    LET gl == [fbos |-> glFramebuffers, texCount |-> glTexCount,
               rbCount |-> glRenderbuffers]
        c  == createFramebuffer(gl, complete)
    IN
    /\ pc["render"] = "create"
    /\ complete => (CanCreate(gl) /\ Len(m_intermediateFramebuffers) < MaxPool)
    /\ glFramebuffers' = c.fbos
    /\ glTexCount' = c.texCount
    /\ glRenderbuffers' = c.rbCount
    /\ IF c.fbo = 0
       THEN /\ Return("render", "renderToTexture", 0)
            /\ UNCHANGED m_intermediateFramebuffers
       ELSE /\ m_intermediateFramebuffers' =
                  Append(m_intermediateFramebuffers, c.fbo)
            /\ pc' = [pc EXCEPT !["render"] = "chain"]
            /\ args' = [args EXCEPT !["render"].fbo = c.fbo]
            /\ UNCHANGED <<renderer, ret>>
    /\ UNCHANGED <<m_context, m_effects, m_effectOrder, egl_display,
                   egl_context, egl_current, m_enabled, last, applyLog,
                   shutdownRan>>
    /\ UNCHANGED <<pvars, svars, avars, s_renderers, g_rendererMutex, hueRead>>

\* applyEffectChain(inputTexture) up to the hook of the effect it applies:
\* the walk reads m_effectOrder and m_effects as they are now; a name
\* without an entry makes it dereference a null effect pointer
renderToTexture_chain(plan) ==
    LET r == applyEffectChain(args["render"].inputTexture, plan) IN
    /\ pc["render"] = "chain"
    /\ r.valid
    /\ m_intermediateFramebuffers' = r.pool
    /\ glFramebuffers' = r.fbos
    /\ glTexCount' = r.texCount
    /\ glRenderbuffers' = r.rbCount
    /\ applyLog' = r.log
    /\ IF r.crashed
       THEN Goto("render", "crashed")
       ELSE IF \E k \in Indices(r.log) : r.log[k].drew
       THEN Goto("render", "reading")
       ELSE Goto("render", "release")
    /\ UNCHANGED <<m_context, m_effects, m_effectOrder, egl_display,
                   egl_context, egl_current, m_enabled, last, shutdownRan>>
    /\ UNCHANGED <<pvars, svars, avars, s_renderers, g_rendererMutex, hueRead>>

\* the parameter maps a getParameter call can observe now: the map as it
\* is and, while setParameter's store is under way, the map with the store
\* done
ObservableParameters ==
    {m_parameters} \cup
    (IF pc["param"] = "writing"
     THEN LET n   == args["param"].paramName
              def == m_parameterDefinitions[n]
          IN  {MapPut(m_parameters, n,
                      glm_clamp(args["param"].value, def.minValue,
                                def.maxValue))}
     ELSE {})

\* HSLEffect::applyCustomUniforms has read its parameters with getParameter
renderToTexture_hook ==
    /\ pc["render"] = "reading"
    /\ \E m \in ObservableParameters : hueRead' = getParameterIn(m, "hue")
    /\ Goto("render", "release")
    /\ UNCHANGED <<rvars, pvars, svars, avars, s_renderers, g_rendererMutex>>

\* "outputTexture = m_context->getFramebufferTexture(fbo);
\* m_context->releaseContext(); return outputTexture": eglMakeCurrent
\* releases the context only on a display that is still there
renderToTexture_release ==
    /\ pc["render"] = "release"
    /\ egl_current' = IF egl_display THEN FALSE ELSE egl_current
    /\ Return("render", "renderToTexture",
              getFramebufferTexture(glFramebuffers, args["render"].fbo))
    /\ UNCHANGED <<m_context, m_effects, m_effectOrder,
                   m_intermediateFramebuffers, egl_display, egl_context,
                   glFramebuffers, glTexCount, glRenderbuffers, m_enabled,
                   last, applyLog, shutdownRan>>
    /\ UNCHANGED <<pvars, svars, avars, s_renderers, g_rendererMutex, hueRead>>

\* ---- thread "destroy": GPUBridge::destroyRenderer ----
\* the call is made
destroyRenderer_call ==
    /\ pc["destroy"] = "idle"
    /\ Goto("destroy", "lock")
    /\ UNCHANGED <<rvars, pvars, svars, avars, s_renderers, g_rendererMutex,
                   hueRead>>

\* "lock_guard lock(g_rendererMutex); it = s_renderers.find(rendererPtr)":
\* without an entry the function returns and the mutex is free again
destroyRenderer_lock ==
    /\ pc["destroy"] = "lock"
    /\ g_rendererMutex = "free"
    /\ IF Handle \in s_renderers
       THEN /\ g_rendererMutex' = "destroy"
            /\ Goto("destroy", "clearMap")
       ELSE /\ UNCHANGED g_rendererMutex
            /\ Return("destroy", "destroyRenderer", 0)
    /\ UNCHANGED <<rvars, pvars, svars, avars, s_renderers, hueRead>>

\* GPURenderer::shutdown(), clearEffects(): "m_effects.clear()"
shutdown_clearMap ==
    /\ pc["destroy"] = "clearMap"
    /\ m_effects' = EmptyMap
    /\ shutdownRan' = TRUE
    /\ Goto("destroy", "clearOrder")
    /\ UNCHANGED <<m_context, m_effectOrder, m_intermediateFramebuffers,
                   egl_display, egl_context, glFramebuffers, glTexCount,
                   glRenderbuffers, egl_current, m_enabled, last, applyLog>>
    /\ UNCHANGED <<pvars, svars, avars, s_renderers, g_rendererMutex, hueRead>>

\* GPURenderer::shutdown(), clearEffects(): "m_effectOrder.clear()"
shutdown_clearOrder ==
    /\ pc["destroy"] = "clearOrder"
    /\ m_effectOrder' = <<>>
    /\ Goto("destroy", "clearPool")
    /\ UNCHANGED <<m_context, m_effects, m_intermediateFramebuffers,
                   egl_display, egl_context, glFramebuffers, glTexCount,
                   glRenderbuffers, egl_current, m_enabled, last, applyLog,
                   shutdownRan>>
    /\ UNCHANGED <<pvars, svars, avars, s_renderers, g_rendererMutex, hueRead>>

\* GPURenderer::shutdown(): deleteFramebuffer for each handle of the pool,
\* on a thread that has no current context, so that the GL deletes
\* nothing; then "m_intermediateFramebuffers.clear()"
shutdown_clearPool ==
    /\ pc["destroy"] = "clearPool"
    /\ m_intermediateFramebuffers' = <<>>
    /\ Goto("destroy", "context")
    /\ UNCHANGED <<m_context, m_effects, m_effectOrder, egl_display,
                   egl_context, glFramebuffers, glTexCount, glRenderbuffers,
                   egl_current, m_enabled, last, applyLog, shutdownRan>>
    /\ UNCHANGED <<pvars, svars, avars, s_renderers, g_rendererMutex, hueRead>>

\* GPURenderer::shutdown(): "m_context->shutdown()".  A context that is
\* current on the render thread is only marked by eglDestroyContext and
\* stays current there with its objects; otherwise it is destroyed with
\* them.  m_context and m_display are reset either way.
shutdown_context ==
    /\ pc["destroy"] = "context"
    /\ egl_display' = FALSE
    /\ egl_context' = FALSE
    /\ IF egl_context /\ ~egl_current
       THEN /\ glFramebuffers' = EmptyMap
            /\ glTexCount' = 0
            /\ glRenderbuffers' = 0
       ELSE UNCHANGED <<glFramebuffers, glTexCount, glRenderbuffers>>
    /\ Goto("destroy", "erase")
    /\ UNCHANGED <<m_context, m_effects, m_effectOrder,
                   m_intermediateFramebuffers, egl_current, m_enabled, last,
                   applyLog, shutdownRan>>
    /\ UNCHANGED <<pvars, svars, avars, s_renderers, g_rendererMutex, hueRead>>

\* "s_renderers.erase(it)" and the end of the lock_guard's scope
destroyRenderer_erase ==
    /\ pc["destroy"] = "erase"
    /\ s_renderers' = s_renderers \ {Handle}
    /\ g_rendererMutex' = "free"
    /\ Return("destroy", "destroyRenderer", 0)
    /\ UNCHANGED <<rvars, pvars, svars, avars, hueRead>>

\* the renderer stored by createRenderer on the render thread, which
\* initialize left with the context current; the chain is empty or holds
\* one HSL effect, constructed with its defaults
BridgeInit ==
    /\ m_context = "ctx"
    /\ egl_display = TRUE
    /\ egl_context = TRUE
    /\ egl_current = TRUE
    /\ glFramebuffers = EmptyMap
    /\ glTexCount = 0
    /\ glRenderbuffers = 0
    /\ m_intermediateFramebuffers = <<>>
    /\ m_effectOrder \in {<<>>, <<"A">>}
    /\ m_effects \in MapsFor(m_effectOrder)
    /\ m_enabled = [e \in Effects |-> TRUE]
    /\ last = [op |-> "initialize", ret |-> TRUE]
    /\ applyLog = <<>>
    /\ shutdownRan = FALSE
    /\ kind = "HSL"
    /\ m_parameterDefinitions = Construct(kind).defs
    /\ m_parameters = Construct(kind).params
    /\ m_intensity = 10
    /\ fx_enabled = TRUE
    /\ plast = [op |-> "construct"]
    /\ SIdle
    /\ m_shader = IF \E n \in DOMAIN m_effects : isAvailable(m_effects[n])
                  THEN "valid" ELSE "null"
    /\ s_quadInitialized = FALSE
    /\ m_lutTexture = 0
    /\ m_curveTexture = 0
    /\ m_time = 0
    /\ s_renderers = {Handle}
    /\ g_rendererMutex = "free"
    /\ pc = [t \in Threads |-> "idle"]
    /\ renderer = [t \in Threads |-> "null"]
    /\ args = [t \in Threads |-> <<>>]
    /\ ret = [t \in Threads |-> [call |-> "none"]]
    /\ hueRead = 0
    /\ EIdle
    /\ XIdle

BridgeNext ==
    /\ pc["render"] # "crashed"
    /\ \/ \E n \in BridgeEffectNames, q \in BridgeParamNames,
            v \in BridgeValues : setEffectParameter_call(n, q, v)
       \/ setEffectParameter_getRenderer
       \/ setEffectParameter_getEffect
       \/ setEffectParameter_setParameter
       \/ setEffectParameter_store
       \/ renderToTexture_call(1)
       \/ renderToTexture_getRenderer
       \/ renderToTexture_check
       \/ \E mc \in BOOLEAN : renderToTexture_enter(mc)
       \/ \E c \in BOOLEAN : renderToTexture_create(c)
       \/ \E plan \in Plans : renderToTexture_chain(plan)
       \/ renderToTexture_hook
       \/ renderToTexture_release
       \/ destroyRenderer_call
       \/ destroyRenderer_lock
       \/ shutdown_clearMap
       \/ shutdown_clearOrder
       \/ shutdown_clearPool
       \/ shutdown_context
       \/ destroyRenderer_erase
    /\ UNCHANGED <<evars, xvars>>

BridgeSpec == BridgeInit /\ [][BridgeNext]_vars

RenderRunning == pc["render"] \in {"create", "chain", "reading", "release"}

\* C28 (as claimed): the render never runs on a renderer whose shutdown()
\* has started or finished: a renderToTexture that has made the context
\* current and works on the pool has returned before shutdown() begins
C28_NoRenderAfterShutdownBegan ==
    ~(shutdownRan /\ RenderRunning)

(***************************************************************************)
(* Part VI : VideoEngine (core/video_engine.cpp) and its worker threads    *)
(*                                                                         *)
(* Thread "main" calls the engine; "preview" runs previewPlaybackThread    *)
(* and "export" runs exportRenderingThread.  A call of the main thread is  *)
(* cut where it waits (join, the state mutex) and where a worker can run   *)
(* between two of its statements.  m_stateMutex is a std::mutex:           *)
(* setState and setError take it for one assignment, shutdown() holds it   *)
(* from its first statement to its last.  A std::thread object is          *)
(* "joinable" from its construction until it is joined, whether or not     *)
(* its function has returned; destroying a joinable one calls              *)
(* std::terminate.                                                         *)
(***************************************************************************)
\* durations of the timelines handed to setTimeline, ms
TimelineDurations == {20, 40}

\* what previewPlaybackThread adds to the position per pass, ms
PreviewStepMs == 16

\* what exportRenderingThread adds to i per pass, ms
ExportStepMs == 33

\* thread t of the engine moves on to label
EGoto(t, label) == epc' = [epc EXCEPT ![t] = label]

\* "m_previewThread = make_unique<std::thread>(..)" or the same for
\* m_exportThread: the thread object held before is destroyed
ReplacesJoinable(handle) == handle = "joinable"

\* VideoEngine::setTimeline(timeline) with a timeline of duration d
setTimeline(d) ==
    /\ epc["main"] = "idle"
    /\ m_timeline' = d
    /\ UNCHANGED <<m_state, m_stateMutex, m_previewPlaying, m_previewPosition,
                   m_previewThread, m_exporting, m_cancelExport,
                   m_exportThread, exportPos, epc, terminated>>

\* VideoEngine::startPreview() up to setState: already playing: false;
\* no timeline: setError and false; else the flag is set and the thread
\* object is replaced by one that runs previewPlaybackThread
startPreview ==
    /\ epc["main"] = "idle"
    /\ m_stateMutex = "free"
    /\ IF m_previewPlaying
       THEN UNCHANGED <<m_state, m_previewPlaying, m_previewThread, epc,
                        terminated>>
       ELSE IF m_timeline = NoTimeline
       THEN /\ m_state' = "ERROR"
            /\ UNCHANGED <<m_previewPlaying, m_previewThread, epc, terminated>>
       ELSE /\ m_previewPlaying' = TRUE
            /\ m_previewThread' = "joinable"
            /\ terminated' = ReplacesJoinable(m_previewThread)
            /\ epc' = [epc EXCEPT !["main"] = "startPreview_setState",
                                  !["preview"] = "loop"]
            /\ UNCHANGED m_state
    /\ UNCHANGED <<m_stateMutex, m_timeline, m_previewPosition, m_exporting,
                   m_cancelExport, m_exportThread, exportPos>>

\* VideoEngine::setState(state) called by thread t, which goes on to label
setState(t, at, state, label) ==
    /\ epc[t] = at
    /\ m_stateMutex = "free"
    /\ m_state' = state
    /\ EGoto(t, label)
    /\ UNCHANGED <<m_stateMutex, m_timeline, m_previewPlaying,
                   m_previewPosition, m_previewThread, m_exporting,
                   m_cancelExport, m_exportThread, exportPos, terminated>>

\* startPreview: "setState(EngineState::PREVIEW_PLAYING); return true"
startPreview_setState ==
    setState("main", "startPreview_setState", "PREVIEW_PLAYING", "idle")

\* VideoEngine::pausePreview() up to setState
pausePreview ==
    /\ epc["main"] = "idle"
    /\ m_previewPlaying
    /\ m_previewPlaying' = FALSE
    /\ EGoto("main", "pausePreview_setState")
    /\ UNCHANGED <<m_state, m_stateMutex, m_timeline, m_previewPosition,
                   m_previewThread, m_exporting, m_cancelExport,
                   m_exportThread, exportPos, terminated>>

\* pausePreview: "setState(EngineState::IDLE); return true"
pausePreview_setState ==
    setState("main", "pausePreview_setState", "IDLE", "idle")

\* VideoEngine::stopPreview() up to the join: "if
\* (!m_previewPlaying.exchange(false)) return false"
stopPreview ==
    /\ epc["main"] = "idle"
    /\ m_previewPlaying
    /\ m_previewPlaying' = FALSE
    /\ EGoto("main", IF m_previewThread = "joinable"
                     THEN "stopPreview_join" ELSE "stopPreview_setState")
    /\ UNCHANGED <<m_state, m_stateMutex, m_timeline, m_previewPosition,
                   m_previewThread, m_exporting, m_cancelExport,
                   m_exportThread, exportPos, terminated>>

\* stopPreview: "m_previewThread->join()" returns once the thread's
\* function has returned
stopPreview_join ==
    /\ epc["main"] = "stopPreview_join"
    /\ epc["preview"] = "done"
    /\ m_previewThread' = "joined"
    /\ epc' = [epc EXCEPT !["main"] = "stopPreview_setState",
                          !["preview"] = "idle"]
    /\ UNCHANGED <<m_state, m_stateMutex, m_timeline, m_previewPlaying,
                   m_previewPosition, m_exporting, m_cancelExport,
                   m_exportThread, exportPos, terminated>>

\* stopPreview: "m_previewPosition = 0; setState(EngineState::IDLE)"
stopPreview_setState ==
    /\ epc["main"] = "stopPreview_setState"
    /\ m_stateMutex = "free"
    /\ m_previewPosition' = 0
    /\ m_state' = "IDLE"
    /\ EGoto("main", "idle")
    /\ UNCHANGED <<m_stateMutex, m_timeline, m_previewPlaying,
                   m_previewThread, m_exporting, m_cancelExport,
                   m_exportThread, exportPos, terminated>>

\* VideoEngine::startExport(..) up to setState: already exporting, or no
\* timeline: setError and false; else the flags are set and the thread
\* object is replaced by one that runs exportRenderingThread
startExport ==
    /\ epc["main"] = "idle"
    /\ m_stateMutex = "free"
    /\ IF m_exporting \/ m_timeline = NoTimeline
       THEN /\ m_state' = "ERROR"
            /\ UNCHANGED <<m_exporting, m_cancelExport, m_exportThread,
                           exportPos, epc, terminated>>
       ELSE /\ m_exporting' = TRUE
            /\ m_cancelExport' = FALSE
            /\ m_exportThread' = "joinable"
            /\ terminated' = ReplacesJoinable(m_exportThread)
            /\ exportPos' = 0
            /\ epc' = [epc EXCEPT !["main"] = "startExport_setState",
                                  !["export"] = "loop"]
            /\ UNCHANGED m_state
    /\ UNCHANGED <<m_stateMutex, m_timeline, m_previewPlaying,
                   m_previewPosition, m_previewThread>>

\* startExport: "setState(EngineState::RENDERING); return true"
startExport_setState ==
    setState("main", "startExport_setState", "RENDERING", "idle")

\* VideoEngine::cancelExport()
cancelExport ==
    /\ epc["main"] = "idle"
    /\ m_exporting
    /\ m_cancelExport' = TRUE
    /\ UNCHANGED <<m_state, m_stateMutex, m_timeline, m_previewPlaying,
                   m_previewPosition, m_previewThread, m_exporting,
                   m_exportThread, exportPos, epc, terminated>>

\* ---- thread "preview": VideoEngine::previewPlaybackThread ----
\* "while (m_previewPlaying)": the loop is left and the function returns
\* when the flag is false
previewPlaybackThread_loop ==
    /\ epc["preview"] = "loop"
    /\ EGoto("preview", IF m_previewPlaying THEN "advance" ELSE "done")
    /\ UNCHANGED <<m_state, m_stateMutex, m_timeline, m_previewPlaying,
                   m_previewPosition, m_previewThread, m_exporting,
                   m_cancelExport, m_exportThread, exportPos, terminated>>

\* "m_previewPosition += 16; if (m_previewPosition >
\* m_timeline->getTotalDuration())": m_timeline is dereferenced, a null
\* one ends the process; past the end the position is set to the end
previewPlaybackThread_advance ==
    /\ epc["preview"] = "advance"
    /\ IF m_timeline = NoTimeline
       THEN /\ terminated' = TRUE
            /\ m_previewPosition' = m_previewPosition + PreviewStepMs
            /\ UNCHANGED epc
       ELSE /\ UNCHANGED terminated
            /\ IF m_previewPosition + PreviewStepMs > m_timeline
               THEN /\ m_previewPosition' = m_timeline
                    /\ EGoto("preview", "complete")
               ELSE /\ m_previewPosition' = m_previewPosition + PreviewStepMs
                    /\ EGoto("preview", "loop")
    /\ UNCHANGED <<m_state, m_stateMutex, m_timeline, m_previewPlaying,
                   m_previewThread, m_exporting, m_cancelExport,
                   m_exportThread, exportPos>>

\* "m_previewPlaying = false"
previewPlaybackThread_complete ==
    /\ epc["preview"] = "complete"
    /\ m_previewPlaying' = FALSE
    /\ EGoto("preview", "setState")
    /\ UNCHANGED <<m_state, m_stateMutex, m_timeline, m_previewPosition,
                   m_previewThread, m_exporting, m_cancelExport,
                   m_exportThread, exportPos, terminated>>

\* "setState(EngineState::IDLE); break" and the function returns
previewPlaybackThread_setState ==
    setState("preview", "setState", "IDLE", "done")

\* ---- thread "export": VideoEngine::exportRenderingThread ----
\* one pass of "for (i = 0; i < m_timeline->getTotalDuration() &&
\* m_exporting; i += 33)" with the break on m_cancelExport
exportRenderingThread_loop ==
    /\ epc["export"] = "loop"
    /\ IF exportPos < m_timeline /\ m_exporting /\ ~m_cancelExport
       THEN /\ exportPos' = exportPos + ExportStepMs
            /\ UNCHANGED epc
       ELSE /\ EGoto("export", "finish")
            /\ UNCHANGED exportPos
    /\ UNCHANGED <<m_state, m_stateMutex, m_timeline, m_previewPlaying,
                   m_previewPosition, m_previewThread, m_exporting,
                   m_cancelExport, m_exportThread, terminated>>

\* "m_exporting = false"
exportRenderingThread_finish ==
    /\ epc["export"] = "finish"
    /\ m_exporting' = FALSE
    /\ EGoto("export", "setState")
    /\ UNCHANGED <<m_state, m_stateMutex, m_timeline, m_previewPlaying,
                   m_previewPosition, m_previewThread, m_cancelExport,
                   m_exportThread, exportPos, terminated>>

\* "setState(EngineState::IDLE)" and the function returns
exportRenderingThread_setState ==
    setState("export", "setState", "IDLE", "done")

\* ---- VideoEngine::shutdown() on thread "main" ----
\* "std::lock_guard<std::mutex> lock(m_stateMutex)"
shutdown_lock ==
    /\ epc["main"] = "idle"
    /\ m_stateMutex = "free"
    /\ m_stateMutex' = "main"
    /\ EGoto("main", "shutdown_preview")
    /\ UNCHANGED <<m_state, m_timeline, m_previewPlaying, m_previewPosition,
                   m_previewThread, m_exporting, m_cancelExport,
                   m_exportThread, exportPos, terminated>>

\* "if (m_previewPlaying.exchange(false)) if (m_previewThread &&
\* m_previewThread->joinable())"
shutdown_preview ==
    /\ epc["main"] = "shutdown_preview"
    /\ m_previewPlaying' = FALSE
    /\ EGoto("main", IF m_previewPlaying /\ m_previewThread = "joinable"
                     THEN "shutdown_joinPreview" ELSE "shutdown_export")
    /\ UNCHANGED <<m_state, m_stateMutex, m_timeline, m_previewPosition,
                   m_previewThread, m_exporting, m_cancelExport,
                   m_exportThread, exportPos, terminated>>

\* "m_previewThread->join()"
shutdown_joinPreview ==
    /\ epc["main"] = "shutdown_joinPreview"
    /\ epc["preview"] = "done"
    /\ m_previewThread' = "joined"
    /\ epc' = [epc EXCEPT !["main"] = "shutdown_export",
                          !["preview"] = "idle"]
    /\ UNCHANGED <<m_state, m_stateMutex, m_timeline, m_previewPlaying,
                   m_previewPosition, m_exporting, m_cancelExport,
                   m_exportThread, exportPos, terminated>>

\* "if (m_exporting.exchange(false)) { m_cancelExport = true; if
\* (m_exportThread && m_exportThread->joinable())"
shutdown_export ==
    /\ epc["main"] = "shutdown_export"
    /\ m_exporting' = FALSE
    /\ m_cancelExport' = (m_cancelExport \/ m_exporting)
    /\ EGoto("main", IF m_exporting /\ m_exportThread = "joinable"
                     THEN "shutdown_joinExport" ELSE "shutdown_finish")
    /\ UNCHANGED <<m_state, m_stateMutex, m_timeline, m_previewPlaying,
                   m_previewPosition, m_previewThread, m_exportThread,
                   exportPos, terminated>>

\* "m_exportThread->join()"
shutdown_joinExport ==
    /\ epc["main"] = "shutdown_joinExport"
    /\ epc["export"] = "done"
    /\ m_exportThread' = "joined"
    /\ epc' = [epc EXCEPT !["main"] = "shutdown_finish",
                          !["export"] = "idle"]
    /\ UNCHANGED <<m_state, m_stateMutex, m_timeline, m_previewPlaying,
                   m_previewPosition, m_previewThread, m_exporting,
                   m_cancelExport, exportPos, terminated>>

\* "m_timeline = nullptr; m_state = EngineState::SHUTDOWN" and the
\* lock_guard's scope ends
shutdown_finish ==
    /\ epc["main"] = "shutdown_finish"
    /\ m_timeline' = NoTimeline
    /\ m_state' = "SHUTDOWN"
    /\ m_stateMutex' = "free"
    /\ EGoto("main", "idle")
    /\ UNCHANGED <<m_previewPlaying, m_previewPosition, m_previewThread,
                   m_exporting, m_cancelExport, m_exportThread, exportPos,
                   terminated>>

\* the steps of a call the main thread has begun
MainStep ==
    \/ startPreview_setState
    \/ pausePreview_setState
    \/ stopPreview_join
    \/ stopPreview_setState
    \/ startExport_setState
    \/ shutdown_preview
    \/ shutdown_joinPreview
    \/ shutdown_export
    \/ shutdown_joinExport
    \/ shutdown_finish

\* the steps of previewPlaybackThread
PreviewStep ==
    \/ previewPlaybackThread_loop
    \/ previewPlaybackThread_advance
    \/ previewPlaybackThread_complete
    \/ previewPlaybackThread_setState

\* the steps of exportRenderingThread
ExportStep ==
    \/ exportRenderingThread_loop
    \/ exportRenderingThread_finish
    \/ exportRenderingThread_setState

\* the calls the main thread makes
MainCall ==
    \/ \E d \in TimelineDurations : setTimeline(d)
    \/ startPreview
    \/ pausePreview
    \/ stopPreview
    \/ startExport
    \/ cancelExport
    \/ shutdown_lock

EngineStep(A) ==
    /\ ~terminated
    /\ A
    /\ UNCHANGED <<rvars, pvars, svars, avars, bvars, xvars>>

EngineNext ==
    \/ EngineStep(MainCall)
    \/ EngineStep(MainStep)
    \/ EngineStep(PreviewStep)
    \/ EngineStep(ExportStep)

EngineSpec == Init /\ [][EngineNext]_vars

\* every thread that can take a step is scheduled in the end: a call that
\* has begun, and each worker, goes on whenever it is not waiting
EngineFairSpec ==
    /\ EngineSpec
    /\ WF_vars(EngineStep(MainStep))
    /\ WF_vars(EngineStep(PreviewStep))
    /\ WF_vars(EngineStep(ExportStep))

(***************************************************************************)
(* Part VI : properties of the engine                                      *)
(***************************************************************************)
\* the main thread is inside VideoEngine::shutdown()
InShutdown ==
    epc["main"] \in {"shutdown_preview", "shutdown_joinPreview",
                     "shutdown_export", "shutdown_joinExport",
                     "shutdown_finish"}

\* shutdown() has returned: the mutex is free again, no worker waits for
\* it and getState() is SHUTDOWN
ShutdownReturned ==
    /\ epc["main"] = "idle"
    /\ m_stateMutex = "free"
    /\ m_state = "SHUTDOWN"

\* C29 (as claimed): VideoEngine::shutdown() always terminates, also when
\* it is called while an export is running or a preview is playing: once
\* the main thread is inside shutdown(), it returns with the workers
\* joined and getState() SHUTDOWN
C29_ShutdownTerminates == InShutdown ~> ShutdownReturned

(***************************************************************************)
(* Part VII : ExportManager (encoding/export_manager.cpp)                  *)
(*                                                                         *)
(* Thread "caller" calls the manager, "worker" runs exportThread.  Each    *)
(* of the worker's three phases is cut in two, so that a cancel can fall   *)
(* inside it; the encoder's own failures are an input of the video phase.  *)
(* m_exportThread is a unique_ptr<std::thread>: assigning a new thread     *)
(* destroys the one held, and a std::thread destroyed while joinable       *)
(* calls std::terminate.                                                   *)
(***************************************************************************)
\* thread t of the manager moves on to label
XGoto(t, label) == xpc' = [xpc EXCEPT ![t] = label]

\* ExportManager::setConfig(config), with or without a timeline in it
setConfig(timeline) ==
    /\ xpc["caller"] = "idle"
    /\ IF em_exporting
       THEN /\ em_lastError' = "Cannot configure while export is in progress"
            /\ UNCHANGED em_timeline
       ELSE /\ em_timeline' = timeline
            /\ UNCHANGED em_lastError
    /\ xlast' = [op |-> "setConfig", ret |-> ~em_exporting]
    /\ UNCHANGED <<em_exporting, m_cancelled, m_complete, em_exportThread,
                   currentPhase, xpc, em_terminated>>

\* ExportManager::startExport()
ExportManager_startExport ==
    /\ xpc["caller"] = "idle"
    /\ IF ~em_timeline
       THEN /\ em_lastError' = "Timeline not configured"
            /\ xlast' = [op |-> "startExport", ret |-> FALSE]
            /\ UNCHANGED <<em_exporting, m_cancelled, m_complete,
                           em_exportThread, currentPhase, xpc, em_terminated>>
       ELSE IF em_exporting
       THEN /\ xlast' = [op |-> "startExport", ret |-> FALSE]
            /\ UNCHANGED <<em_exporting, m_cancelled, m_complete,
                           em_exportThread, em_lastError, currentPhase, xpc,
                           em_terminated>>
       ELSE /\ em_exporting' = TRUE
            /\ m_cancelled' = FALSE
            /\ m_complete' = FALSE
            /\ currentPhase' = ""
            /\ em_exportThread' = "joinable"
            /\ em_terminated' = ReplacesJoinable(em_exportThread)
            /\ XGoto("worker", "video")
            /\ xlast' = [op |-> "startExport", ret |-> TRUE,
                         previous |-> em_exportThread]
            /\ UNCHANGED em_lastError
    /\ UNCHANGED em_timeline

\* ExportManager::cancelExport() up to the join
ExportManager_cancelExport ==
    /\ xpc["caller"] = "idle"
    /\ IF ~em_exporting
       THEN /\ xlast' = [op |-> "cancelExport", ret |-> FALSE]
            /\ UNCHANGED <<m_cancelled, xpc>>
       ELSE /\ m_cancelled' = TRUE
            /\ XGoto("caller", IF em_exportThread = "joinable"
                               THEN "cancelExport_join"
                               ELSE "cancelExport_finish")
            /\ UNCHANGED xlast
    /\ UNCHANGED <<em_timeline, em_exporting, m_complete, em_exportThread,
                   em_lastError, currentPhase, em_terminated>>

\* cancelExport: "m_exportThread->join()"
cancelExport_join ==
    /\ xpc["caller"] = "cancelExport_join"
    /\ xpc["worker"] = "done"
    /\ em_exportThread' = "joined"
    /\ xpc' = [xpc EXCEPT !["caller"] = "cancelExport_finish",
                          !["worker"] = "idle"]
    /\ UNCHANGED <<em_timeline, em_exporting, m_cancelled, m_complete,
                   em_lastError, currentPhase, xlast, em_terminated>>

\* cancelExport: "m_exporting = false; currentPhase = "Cancelled"; return
\* true"
cancelExport_finish ==
    /\ xpc["caller"] = "cancelExport_finish"
    /\ em_exporting' = FALSE
    /\ currentPhase' = "Cancelled"
    /\ XGoto("caller", "idle")
    /\ xlast' = [op |-> "cancelExport", ret |-> TRUE]
    /\ UNCHANGED <<em_timeline, m_cancelled, m_complete, em_exportThread,
                   em_lastError, em_terminated>>

\* ExportManager::waitForCompletion(timeoutMs) returns: true once
\* m_exporting is false or m_complete is true, false when the timeout has
\* passed before that
waitForCompletion(timedOut) ==
    /\ xpc["caller"] = "idle"
    /\ timedOut => (em_exporting /\ ~m_complete)
    /\ ~timedOut => (~em_exporting \/ m_complete)
    /\ xlast' = [op |-> "waitForCompletion", ret |-> ~timedOut]
    /\ UNCHANGED <<em_timeline, em_exporting, m_cancelled, m_complete,
                   em_exportThread, em_lastError, currentPhase, xpc,
                   em_terminated>>

\* a step of the worker that changes only the phase and its position
WorkerStep(phase, label) ==
    /\ currentPhase' = phase
    /\ XGoto("worker", label)
    /\ UNCHANGED <<em_timeline, em_exporting, m_cancelled, m_complete,
                   em_exportThread, em_lastError, xlast, em_terminated>>

\* a phase of exportThread has failed: "m_lastError = ..; m_exporting =
\* false; return"
WorkerFails(message) ==
    /\ em_lastError' = message
    /\ em_exporting' = FALSE
    /\ XGoto("worker", "done")
    /\ UNCHANGED <<em_timeline, m_cancelled, m_complete, em_exportThread,
                   currentPhase, xlast, em_terminated>>

\* exportThread, phase 1: "if (!m_cancelled) { currentPhase = "Video"; .."
exportThread_video ==
    /\ xpc["worker"] = "video"
    /\ IF m_cancelled
       THEN WorkerStep(currentPhase, "audio")
       ELSE WorkerStep("Video", "encodeVideo")

\* "if (!encodeVideo())": the encoder refuses (configure or start fails),
\* or the frames are encoded and the result is !m_cancelled
exportThread_encodeVideo(encoderOk) ==
    /\ xpc["worker"] = "encodeVideo"
    /\ IF encoderOk /\ ~m_cancelled
       THEN WorkerStep(currentPhase, "audio")
       ELSE WorkerFails("Video encoding failed")

\* exportThread, phase 2: "if (!m_cancelled) { currentPhase = "Audio"; .."
exportThread_audio ==
    /\ xpc["worker"] = "audio"
    /\ IF m_cancelled
       THEN WorkerStep(currentPhase, "mux")
       ELSE WorkerStep("Audio", "encodeAudio")

\* "if (!encodeAudio())"
exportThread_encodeAudio ==
    /\ xpc["worker"] = "encodeAudio"
    /\ IF ~m_cancelled
       THEN WorkerStep(currentPhase, "mux")
       ELSE WorkerFails("Audio encoding failed")

\* exportThread, phase 3: "if (!m_cancelled) { currentPhase = "Muxing"; .."
exportThread_mux ==
    /\ xpc["worker"] = "mux"
    /\ IF m_cancelled
       THEN WorkerStep(currentPhase, "complete")
       ELSE WorkerStep("Muxing", "muxStreams")

\* "if (!muxStreams())"
exportThread_muxStreams ==
    /\ xpc["worker"] = "muxStreams"
    /\ IF ~m_cancelled
       THEN WorkerStep(currentPhase, "complete")
       ELSE WorkerFails("Stream muxing failed")

\* "currentPhase = "Complete"; m_complete = true"
exportThread_complete ==
    /\ xpc["worker"] = "complete"
    /\ currentPhase' = "Complete"
    /\ m_complete' = TRUE
    /\ XGoto("worker", "end")
    /\ UNCHANGED <<em_timeline, em_exporting, m_cancelled, em_exportThread,
                   em_lastError, xlast, em_terminated>>

\* "m_exporting = false" and the function returns
exportThread_end ==
    /\ xpc["worker"] = "end"
    /\ em_exporting' = FALSE
    /\ XGoto("worker", "done")
    /\ UNCHANGED <<em_timeline, m_cancelled, m_complete, em_exportThread,
                   em_lastError, currentPhase, xlast, em_terminated>>

ExportNext ==
    /\ ~em_terminated
    /\ \/ \E t \in BOOLEAN : setConfig(t)
       \/ ExportManager_startExport
       \/ ExportManager_cancelExport
       \/ cancelExport_join
       \/ cancelExport_finish
       \/ \E timedOut \in BOOLEAN : waitForCompletion(timedOut)
       \/ exportThread_video
       \/ \E ok \in BOOLEAN : exportThread_encodeVideo(ok)
       \/ exportThread_audio
       \/ exportThread_encodeAudio
       \/ exportThread_mux
       \/ exportThread_muxStreams
       \/ exportThread_complete
       \/ exportThread_end
    /\ UNCHANGED <<rvars, pvars, svars, avars, bvars, evars>>

ExportSpec == Init /\ [][ExportNext]_vars

(***************************************************************************)
(* Part VII : properties of the export manager                             *)
(***************************************************************************)
\* the last call was a startExport() that started an export although the
\* manager still held the thread of an export that had run to its end
RestartedAfterExport ==
    /\ xlast.op = "startExport"
    /\ xlast.ret
    /\ xlast.previous = "joinable"

\* C30 (as claimed): after an export has run to its end (isExporting()
\* false), a further startExport() returns true and starts a new export
\* without terminating the process
C30_RestartDoesNotTerminate == RestartedAfterExport => ~em_terminated

====
